---- MODULE Spec2Model ----
(***************************************************************************)
(* Model of the shop directory: the review routes (POST/PUT/DELETE         *)
(* /api/reviews), the favorite routes (POST/DELETE                         *)
(* /api/auth/favorites/:shopId), the shop queries (GET /api/shops,         *)
(* /api/top, /api/shops/:slug), the admin shop routes and the Google       *)
(* import, and the DatabaseStorage methods they call.  A handler that      *)
(* writes is one action per database statement it awaits: statements of    *)
(* different handlers interleave.                                          *)
(***************************************************************************)
EXTENDS Integers, Sequences, FiniteSets, TLC

VARIABLES
    reviews,        \* rows of the reviews table
    nextReviewId,   \* next value gen_random_uuid() gives a review row
    reviewReqs,     \* POST /api/reviews handlers: what each awaits
    favorites,      \* rows of the user_favorites table
    nextFavoriteId, \* next value gen_random_uuid() gives a favorite row
    favoriteReqs,   \* POST /api/auth/favorites handlers: what each awaits
    now,            \* the server clock (new Date())
    shops,          \* rows of the shops table
    nextShopId,     \* next value gen_random_uuid() gives a shop row
    openingHours,   \* rows of the opening_hours table
    photos,         \* rows of the photos table
    nextChildId,    \* next value gen_random_uuid() gives an opening_hours or photos row
    adminReq,       \* the admin handler: what it awaits
    query,          \* the filters of the shop query that was answered last
    request,        \* the request that was answered last
    response,       \* the response it was answered with
    hoursReqs,      \* updateOpeningHours calls: what each inserts after its delete
    slugReqs        \* getShopBySlug calls: what each has read so far

vars == <<reviews, nextReviewId, reviewReqs, favorites, nextFavoriteId,
          favoriteReqs, now, shops, nextShopId, openingHours, photos, nextChildId,
          adminReq, query, request, response, hoursReqs, slugReqs>>

reviewVars == <<reviews, nextReviewId, reviewReqs>>
favoriteVars == <<favorites, nextFavoriteId, favoriteReqs>>
asyncVars == <<hoursReqs, slugReqs>>
shopVars == <<shops, nextShopId, openingHours, photos, nextChildId, adminReq, query>>
shopRows == <<shops, nextShopId, openingHours, photos, nextChildId>>

----------------------------------------------------------------------------
(* Bounds *)

\* number of review rows ever inserted in a run
MaxReviews == 2
\* number of favorite rows ever inserted in a run
MaxFavorites == 2
\* last instant of the server clock
MaxNow == 1
\* number of shop rows ever inserted in a run, the two first ones included
MaxShops == 3
\* number of opening_hours and photos rows ever inserted in a run
MaxChildren == 2

----------------------------------------------------------------------------
(* Values *)

NULL == "null"
None == <<>>
Some(x) == <<x>>
IsSome(o) == o # <<>>
Get(o) == o[1]

\* rows of the users table, rows of the shops table, a shop id no row has
Users == {"u1", "u2"}
ShopIds == {"s1", "s2"}
UnknownShopId == "s9"

\* concurrently running handlers of one route
Handlers == {1, 2}

\* a request's session user: NULL when not logged in
Sessions == Users \cup {NULL}

\* what identifies an anonymous client: req.ip and its User-Agent header
Clients == { [ip |-> <<"10.0.0.1">>, userAgent |-> Some(<<"A">>)],
             [ip |-> <<"10.0.0.2">>, userAgent |-> None] }
NoClient == [ip |-> <<>>, userAgent |-> None]

\* the users who write reviews; the other users only act on the reviews of others
Reviewers == {"u1"}

\* who sends a review: a logged-in user, or an anonymous client
Callers == { [session |-> u, client |-> NoClient] : u \in Reviewers }
           \cup { [session |-> NULL, client |-> c] : c \in Clients }

\* a JSON number: n + a fraction in (0,1) when frac
Num(n, frac) == [n |-> n, frac |-> frac]

\* text: z.string().max(2000) of insertReviewSchema; a text is modelled by its length
MaxTextLen == 2000

Absent == [shopId |-> None, rating |-> None, text |-> None,
           userId |-> None, userHash |-> None]

\* a well-formed body
Body(shopId, rating) ==
    [Absent EXCEPT !.shopId = Some(shopId), !.rating = Some(rating), !.text = Some(10)]

\* request bodies of POST /api/reviews: well-formed for either shop, for a shop
\* that does not exist, with a fractional rating; a rating below 1, a rating
\* above 5, no rating; with fields the schema does not have
PostBodies ==
    { Body(s, Num(5, FALSE)) : s \in ShopIds }
    \cup
    { Body(UnknownShopId, Num(5, FALSE)),
      Body("s1", Num(4, TRUE)),
      Body("s1", Num(0, FALSE)),
      Body("s1", Num(5, TRUE)),
      [Body("s1", Num(5, FALSE)) EXCEPT !.rating = None],
      [Body("s2", Num(5, FALSE)) EXCEPT !.userId = Some("u2"),
                                        !.userHash = Some(<<"forged">>)] }

\* request bodies of PUT /api/reviews/:reviewId: patches of one field, the
\* empty patch, ill-formed values, fields the schema does not have
PutBodies ==
    { Absent,
      [Absent EXCEPT !.rating = Some(Num(5, FALSE)), !.text = Some(10)],
      [Absent EXCEPT !.shopId = Some("s1")],
      [Absent EXCEPT !.shopId = Some("s2")],
      [Absent EXCEPT !.shopId = Some(UnknownShopId)],
      [Absent EXCEPT !.rating = Some(Num(4, TRUE))],
      [Absent EXCEPT !.text = Some(MaxTextLen + 1)],
      [Absent EXCEPT !.userId = Some("u2"), !.userHash = Some(<<"forged">>)] }

\* :reviewId of a request: an id that was given to a row, or 0, the id of no row
ReviewIds == 0 .. MaxReviews

----------------------------------------------------------------------------
(* Validation: insertReviewSchema and insertReviewSchema.partial() *)

InsertReviewFields == {"shopId", "rating", "text"}

\* rating: z.number().min(1).max(5)
RatingOk(x) == x.n >= 1 /\ (x.n < 5 \/ (x.n = 5 /\ ~x.frac))

FieldOk(f, v) ==
    CASE f = "shopId" -> TRUE
      [] f = "rating" -> RatingOk(v)
      [] f = "text"   -> v <= MaxTextLen

\* safeParse: every field of the schema present and well-formed; the parsed
\* data holds the schema's fields only (zod drops the keys it does not know)
insertReviewSchema(body) ==
    [success |-> \A f \in InsertReviewFields : IsSome(body[f]) /\ FieldOk(f, Get(body[f])),
     data    |-> [f \in InsertReviewFields |-> body[f]]]

\* variant: a partial schema that keeps the keys it does not know (passthrough)
insertReviewSchemaPassthrough(body) ==
    [success |-> \A f \in InsertReviewFields : IsSome(body[f]) => FieldOk(f, Get(body[f])),
     data    |-> body]

\* insertReviewSchema.partial(): every field optional, the present ones well-formed
insertReviewSchemaPartial(body) ==
    [success |-> \A f \in InsertReviewFields : IsSome(body[f]) => FieldOk(f, Get(body[f])),
     data    |-> [f \in InsertReviewFields |-> body[f]]]

----------------------------------------------------------------------------
(* auth: the session user and the fingerprint of an anonymous client *)

\* the name of the session user (getCurrentUser(req).name)
NameOf(userId) == <<"name of", userId>>

\* sha256 of (req.ip || 'unknown') + (User-Agent || 'unknown'); no hash is empty
NoHash == <<>>
createUserHash(client) ==
    LET ip == IF client.ip # <<>> THEN client.ip ELSE <<"unknown">>
        userAgent == IF IsSome(client.userAgent) THEN Get(client.userAgent)
                     ELSE <<"unknown">>
    IN  <<"sha256">> \o ip \o userAgent

----------------------------------------------------------------------------
(* DatabaseStorage: reviews *)

\* what the database refuses in a row of reviews: an integer column given a
\* fractional number, a shop_id that references no row of shops
IntegerOk(x) == ~x.frac
ShopRefOk(shopId) == \E s \in shops : s.id = shopId

\* variant: the table with a unique index on (user_id, shop_id)
ReviewInsertAcceptedUniqueUserShop(rows, row) ==
    /\ IntegerOk(row.rating)
    /\ ShopRefOk(row.shopId)
    /\ \A r \in rows : r.id # row.id
    /\ \A r \in rows : ~(r.userId # NULL /\ r.userId = row.userId /\ r.shopId = row.shopId)

\* variant: the table with a unique index on (user_hash, shop_id)
ReviewInsertAcceptedUniqueHashShop(rows, row) ==
    /\ IntegerOk(row.rating)
    /\ ShopRefOk(row.shopId)
    /\ \A r \in rows : r.id # row.id
    /\ \A r \in rows :
          ~(r.userHash # NoHash /\ r.userHash = row.userHash /\ r.shopId = row.shopId)

\* the table has a primary key on id and no other unique constraint
ReviewInsertAccepted(rows, row) ==
    /\ IntegerOk(row.rating)
    /\ ShopRefOk(row.shopId)
    /\ \A r \in rows : r.id # row.id

\* variant: a lookup by shop that skips the reviews of the user
getUserReviewForShopOfOthers(rows, userId, shopId) ==
    LET found == {r \in rows : r.userId # NULL /\ r.userId # userId /\ r.shopId = shopId}
    IN  IF found = {} THEN None ELSE Some(CHOOSE r \in found : \A q \in found : r.id <= q.id)

getUserReviewForShop(rows, userId, shopId) ==
    LET found == {r \in rows : r.userId # NULL /\ r.userId = userId /\ r.shopId = shopId}
    IN  IF found = {} THEN None ELSE Some(CHOOSE r \in found : \A q \in found : r.id <= q.id)

\* the row storage.createReview inserts for the route's reviewData
createReviewValues(review, id) ==
    [id          |-> id,
     shopId      |-> review.shopId,
     userId      |-> IF review.userId # NULL THEN review.userId ELSE NULL,
     rating      |-> review.rating,
     text        |-> review.text,
     userHash    |-> IF review.userHash # NoHash THEN review.userHash ELSE NoHash,
     authorName  |-> IF review.userId # NULL THEN None ELSE <<"Anonymer Nutzer">>,
     isAnonymous |-> review.isAnonymous,
     isEdited    |-> FALSE,
     editedAt    |-> None]

createReview(rows, review, id) ==
    LET row == createReviewValues(review, id)
    IN  IF ReviewInsertAccepted(rows, row)
        THEN [rows |-> rows \cup {[row EXCEPT !.rating = row.rating.n]},
              error |-> NULL,
              row |-> Some([row EXCEPT !.rating = row.rating.n])]
        ELSE [rows |-> rows, error |-> "database error", row |-> None]

\* the message of the Error updateReview and deleteReview throw
NotFoundOrUnauthorized == "Review not found or unauthorized"

\* variant: WHERE id = reviewId, without the user_id condition
OwnedByAnyone(rows, reviewId, userId) ==
    {r \in rows : r.id = reviewId}

\* the rows UPDATE ... WHERE id = reviewId AND user_id = userId touches
OwnedBy(rows, reviewId, userId) ==
    {r \in rows : r.id = reviewId /\ r.userId # NULL /\ r.userId = userId}

\* the value a column takes from a parsed field
ColumnValue(f, v) == IF f = "rating" THEN v.n ELSE v

\* variant: the fields the updates carry, without the edit marks
ApplyUpdatesUnmarked(r, updates, t) ==
    [f \in DOMAIN r |->
        IF f \in DOMAIN updates /\ IsSome(updates[f])
        THEN ColumnValue(f, Get(updates[f])) ELSE r[f]]

\* .set({...updates, isEdited: true, editedAt: new Date(), ...}): every field the
\* updates carry, then the edit marks
ApplyUpdates(r, updates, t) ==
    LET set == [f \in DOMAIN r |->
                   IF f \in DOMAIN updates /\ IsSome(updates[f])
                   THEN ColumnValue(f, Get(updates[f])) ELSE r[f]]
    IN  [set EXCEPT !.isEdited = TRUE, !.editedAt = Some(t)]

\* variant: an update that tells a review of another author from no review
updateReviewTellingForeign(rows, reviewId, userId, updates, t) ==
    LET matched == OwnedBy(rows, reviewId, userId)
        badValue == IsSome(updates.rating) /\ ~IntegerOk(Get(updates.rating))
        badRef == matched # {} /\ IsSome(updates.shopId)
                  /\ ~ShopRefOk(Get(updates.shopId))
        updated == {ApplyUpdates(r, updates, t) : r \in matched}
    IN  IF badValue \/ badRef
        THEN [rows |-> rows, error |-> "database error", row |-> None]
        ELSE IF \A r \in rows : r.id # reviewId
        THEN [rows |-> rows, error |-> NotFoundOrUnauthorized, row |-> None]
        ELSE IF matched = {}
        THEN [rows |-> rows, error |-> "Unauthorized", row |-> None]
        ELSE [rows |-> (rows \ matched) \cup updated, error |-> NULL,
              row |-> Some(CHOOSE r \in updated : TRUE)]

updateReview(rows, reviewId, userId, updates, t) ==
    LET matched == OwnedBy(rows, reviewId, userId)
        badValue == IsSome(updates.rating) /\ ~IntegerOk(Get(updates.rating))
        badRef == matched # {} /\ IsSome(updates.shopId)
                  /\ ~ShopRefOk(Get(updates.shopId))
        updated == {ApplyUpdates(r, updates, t) : r \in matched}
    IN  IF badValue \/ badRef
        THEN [rows |-> rows, error |-> "database error", row |-> None]
        ELSE IF matched = {}
        THEN [rows |-> rows, error |-> NotFoundOrUnauthorized, row |-> None]
        ELSE [rows |-> (rows \ matched) \cup updated, error |-> NULL,
              row |-> Some(CHOOSE r \in updated : TRUE)]

deleteReview(rows, reviewId, userId) ==
    LET matched == OwnedBy(rows, reviewId, userId)
    IN  IF matched = {}
        THEN [rows |-> rows, error |-> NotFoundOrUnauthorized, row |-> None]
        ELSE [rows |-> rows \ matched, error |-> NULL, row |-> None]

----------------------------------------------------------------------------
(* DatabaseStorage: favorites *)

\* variant: a SELECT that finds no row
existingFavoritesNone(rows, userId, shopId) == {}

\* first statement of addUserFavorite: the rows
\* SELECT ... WHERE user_id = userId AND shop_id = shopId returns
existingFavorites(rows, userId, shopId) ==
    {f \in rows : f.userId = userId /\ f.shopId = shopId}

\* the table has a primary key on id and no other unique constraint; shop_id
\* references shops
FavoriteInsertAccepted(rows, row) ==
    /\ ShopRefOk(row.shopId)
    /\ \A f \in rows : f.id # row.id

\* second statement of addUserFavorite: insert(userFavorites).values({userId, shopId})
insertFavorite(rows, userId, shopId, id, t) ==
    LET row == [id |-> id, userId |-> userId, shopId |-> shopId, createdAt |-> t]
    IN  IF FavoriteInsertAccepted(rows, row)
        THEN [rows |-> rows \cup {row}, error |-> NULL, row |-> Some(row)]
        ELSE [rows |-> rows, error |-> "database error", row |-> None]

\* variant: DELETE ... WHERE shop_id = shopId, for every user
removeUserFavoriteOfEveryone(rows, userId, shopId) ==
    {f \in rows : f.shopId # shopId}

\* DELETE ... WHERE user_id = userId AND shop_id = shopId
removeUserFavorite(rows, userId, shopId) ==
    {f \in rows : ~(f.userId = userId /\ f.shopId = shopId)}

----------------------------------------------------------------------------
(* Shops: names, slugs, coordinates, rows *)

\* a name is a sequence of characters; "Ouml" and "ouml" stand for the letters
\* O-umlaut and o-umlaut
NameAli == <<"A", "l", "i">>
NameOez == <<"Ouml", "z">>
NameOezAscii == <<"O", "e", "z", "!">>
NameBey == <<"B", "e", "y">>
ShopNames == {NameAli, NameOez, NameOezAscii, NameBey}

\* String.prototype.toLowerCase on the characters of the names
toLowerCase(c) ==
    CASE c = "A" -> "a"
      [] c = "B" -> "b"
      [] c = "O" -> "o"
      [] c = "Ouml" -> "ouml"
      [] OTHER -> c

\* .replace(/[äöüß]/g, ...): ae, oe, ue, ss
Transliterate(c) ==
    CASE c = "auml" -> <<"a", "e">>
      [] c = "ouml" -> <<"o", "e">>
      [] c = "uuml" -> <<"u", "e">>
      [] c = "szlig" -> <<"s", "s">>
      [] OTHER -> <<c>>

\* [a-z0-9]
SlugChars ==
    {"a", "b", "c", "d", "e", "f", "g", "h", "i", "j", "k", "l", "m", "n", "o",
     "p", "q", "r", "s", "t", "u", "v", "w", "x", "y", "z",
     "0", "1", "2", "3", "4", "5", "6", "7", "8", "9"}

RECURSIVE FlatMapChars(_)
FlatMapChars(name) ==
    IF name = <<>> THEN <<>>
    ELSE Transliterate(toLowerCase(Head(name))) \o FlatMapChars(Tail(name))

\* .replace(/[^a-z0-9]+/g, '-'): every run of other characters becomes one dash
RECURSIVE ReplaceRuns(_, _)
ReplaceRuns(chars, inRun) ==
    IF chars = <<>> THEN <<>>
    ELSE IF Head(chars) \in SlugChars
    THEN <<Head(chars)>> \o ReplaceRuns(Tail(chars), FALSE)
    ELSE IF inRun THEN ReplaceRuns(Tail(chars), TRUE)
    ELSE <<"-">> \o ReplaceRuns(Tail(chars), TRUE)

\* .replace(/^-+|-+$/g, '')
RECURSIVE TrimDashes(_)
TrimDashes(chars) ==
    IF chars = <<>> THEN <<>>
    ELSE IF Head(chars) = "-" THEN TrimDashes(Tail(chars))
    ELSE IF chars[Len(chars)] = "-" THEN TrimDashes(SubSeq(chars, 1, Len(chars) - 1))
    ELSE chars

generateSlug(name) == TrimDashes(ReplaceRuns(FlatMapChars(name), FALSE))

\* a slug an admin writes by hand
SlugMoved == <<"m", "o", "v", "e", "d">>

\* decimal(10,7) coordinates, in units of 0.0001 degree: 50.9157, 50.9177 north
\* and 13.3407, 13.3427 east
Lats == {509157, 509177}
Lngs == {133407, 133427}

Cities == {"Freiberg", "Chemnitz"}

\* place ids of Google Places
PlaceIds == {"g1"}

\* the id gen_random_uuid() gives the n-th shop row
ShopIdOf(n) == <<"s1", "s2", "s3", "s4", "s5">>[n]

\* a row of shops with the column defaults: price_level null, the flags false,
\* is_published true, google_place_id null
ShopRow(id, name, slug, lat, lng, city) ==
    [id |-> id, name |-> name, slug |-> slug, lat |-> lat, lng |-> lng,
     city |-> city, priceLevel |-> None, halal |-> FALSE, veg |-> FALSE,
     hasOffers |-> FALSE, hasDelivery |-> FALSE, isPublished |-> TRUE,
     googlePlaceId |-> None]

\* the shops the directory starts with: two published shops of Freiberg, the
\* first one imported from Google, the second one created by an admin
SeedShops ==
    { [ShopRow("s1", NameAli, generateSlug(NameAli), 509157, 133427, "Freiberg")
          EXCEPT !.priceLevel = Some(1), !.halal = TRUE, !.veg = TRUE,
                 !.googlePlaceId = Some("g1")],
      [ShopRow("s2", NameOez, generateSlug(NameOez), 509177, 133407, "Freiberg")
          EXCEPT !.priceLevel = Some(3), !.halal = TRUE] }

----------------------------------------------------------------------------
(* DatabaseStorage: getShops and getShopBySlug *)

\* a JavaScript number: an integer or NaN; undefined is None
JsNumber(n) == [nan |-> FALSE, n |-> n]
NaN == [nan |-> TRUE, n |-> 0]

\* a <= b, a + b of JavaScript: false and NaN when either is NaN
JsLeq(a, b) == ~a.nan /\ ~b.nan /\ a.n <= b.n
JsPlus(a, b) == IF a.nan \/ b.nan THEN NaN ELSE JsNumber(a.n + b.n)

\* calculateDistance on the coordinates of Lats and Lngs: R * c * 1000 rounded,
\* c of the Haversine formula; 0.0020 degree of latitude is 222 m, 0.0020
\* degree of longitude at 50.9 north is 140 m, both together 263 m
calculateDistance(lat1, lng1, lat2, lng2) ==
    IF lat1.nan \/ lng1.nan THEN NaN
    ELSE CASE lat1.n = lat2 /\ lng1.n = lng2 -> JsNumber(0)
           [] lat1.n = lat2 /\ lng1.n # lng2 -> JsNumber(140)
           [] lat1.n # lat2 /\ lng1.n = lng2 -> JsNumber(222)
           [] OTHER                          -> JsNumber(263)

\* a numeric of PostgreSQL, in millionths
Numeric(n) == n * 1000000

RECURSIVE SumOf(_)
SumOf(rows) ==
    IF rows = {} THEN 0
    ELSE LET r == CHOOSE x \in rows : TRUE IN r.rating + SumOf(rows \ {r})

\* AVG(reviews.rating) over the rows of a shop: NULL over no row
AVG(rows) ==
    IF rows = {} THEN None
    ELSE Some((2 * Numeric(SumOf(rows)) + Cardinality(rows)) \div (2 * Cardinality(rows)))
COUNT(rows) == Cardinality(rows)
COALESCE(x, default) == IF x = None THEN Some(default) ELSE x

\* Number(x) of a column value: Number(null) is 0
Number(x) == IF x = None THEN 0 ELSE Get(x)

\* the reviews the LEFT JOIN gives a shop
ReviewsOfShop(shopId) == {r \in reviews : r.shopId = shopId}

\* the filters of getShops: undefined is None
NoFilters ==
    [city |-> None, lat |-> None, lng |-> None, radius |-> None, halal |-> FALSE,
     veg |-> FALSE, hasOffers |-> FALSE, hasDelivery |-> FALSE, sortBy |-> None,
     limit |-> None, offset |-> None]

\* the WHERE clause of the base query; city ? ... : undefined skips the empty string
BaseQueryWhere(shop, filters) ==
    /\ shop.isPublished
    /\ (IsSome(filters.city) /\ Get(filters.city) # "") => shop.city = Get(filters.city)
    /\ filters.halal => shop.halal
    /\ filters.veg => shop.veg
    /\ filters.hasOffers => shop.hasOffers
    /\ filters.hasDelivery => shop.hasDelivery

\* variant: a join without its ON condition, every review counted for every shop
BaseQueryRowOfAllReviews(shop) ==
    [shop        |-> shop,
     avg         |-> AVG(reviews),
     avgRating   |-> COALESCE(AVG(reviews), 0),
     reviewCount |-> COUNT(reviews),
     distance    |-> None]

\* the selected row of a shop: the shop, COALESCE(AVG, 0), COUNT; avg is the
\* AVG the ORDER BY reads
BaseQueryRow(shop) ==
    [shop        |-> shop,
     avg         |-> AVG(ReviewsOfShop(shop.id)),
     avgRating   |-> COALESCE(AVG(ReviewsOfShop(shop.id)), 0),
     reviewCount |-> COUNT(ReviewsOfShop(shop.id)),
     distance    |-> None]

\* ORDER BY ... DESC puts NULL first, ORDER BY ... ASC puts NULL last
DescNullsFirst(x, y) == x = None \/ (y # None /\ Get(x) >= Get(y))
AscNullsLast(x, y) == y = None \/ (x # None /\ Get(x) <= Get(y))

\* whether the ORDER BY of the base query lets row a stand before row b; rows
\* that tie stand in either order, and without ORDER BY every order is possible
OrderByAllows(sortBy, a, b) ==
    CASE sortBy = Some("rating")   -> DescNullsFirst(a.avg, b.avg)
      [] sortBy = Some("price")    -> AscNullsLast(a.shop.priceLevel, b.shop.priceLevel)
      [] sortBy = Some("distance") -> TRUE
      [] OTHER -> \/ a.shop.priceLevel # b.shop.priceLevel
                     /\ AscNullsLast(a.shop.priceLevel, b.shop.priceLevel)
                  \/ a.shop.priceLevel = b.shop.priceLevel
                     /\ DescNullsFirst(a.avg, b.avg)

\* the results the database may give for the base query
BaseQuery(filters) ==
    LET rows == {BaseQueryRow(shop) : shop \in {x \in shops : BaseQueryWhere(x, filters)}}
        n == Cardinality(rows)
    IN  {seq \in [1 .. n -> rows] :
            /\ \A i, j \in 1 .. n : i # j => seq[i] # seq[j]
            /\ \A i, j \in 1 .. n : i < j => OrderByAllows(filters.sortBy, seq[i], seq[j])}

\* result.map(item => ({...item, distance}))
RECURSIVE WithDistance(_, _, _)
WithDistance(result, lat, lng) ==
    IF result = <<>> THEN <<>>
    ELSE <<[Head(result) EXCEPT !.distance =
               Some(calculateDistance(lat, lng, Head(result).shop.lat, Head(result).shop.lng))]>>
         \o WithDistance(Tail(result), lat, lng)

\* variant: a filter that keeps every item
FilterByRadiusKeepingAll(items, radius) == items

\* .filter(item => item.distance <= radius)
RECURSIVE FilterByRadius(_, _)
FilterByRadius(items, radius) ==
    IF items = <<>> THEN <<>>
    ELSE (IF JsLeq(Get(Head(items).distance), radius) THEN <<Head(items)>> ELSE <<>>)
         \o FilterByRadius(Tail(items), radius)

\* (a, b) => a.distance - b.distance; the sort reads NaN as 0
CompareDistance(a, b) ==
    IF Get(a.distance).nan \/ Get(b.distance).nan THEN 0
    ELSE Get(a.distance).n - Get(b.distance).n

\* variant: no sort
SortByDistanceSkipped(items) == items

\* Array.prototype.sort, a stable sort: an item goes behind the items that do
\* not compare greater
RECURSIVE SortByDistance(_)
SortByDistance(items) ==
    IF items = <<>> THEN <<>>
    ELSE LET n == Len(items)
             sorted == SortByDistance(SubSeq(items, 1, n - 1))
             x == items[n]
             k == Cardinality({i \in 1 .. n - 1 : CompareDistance(sorted[i], x) <= 0})
         IN  SubSeq(sorted, 1, k) \o <<x>> \o SubSeq(sorted, k + 1, n - 1)

\* Array.prototype.slice(start, end): NaN counts as 0, a negative index counts
\* from the end
RelativeIndex(x, len) ==
    LET i == IF x.nan THEN 0 ELSE x.n
    IN  IF i < 0 THEN (IF len + i > 0 THEN len + i ELSE 0)
        ELSE (IF i < len THEN i ELSE len)
Slice(items, start, end) ==
    SubSeq(items, RelativeIndex(start, Len(items)) + 1, RelativeIndex(end, Len(items)))

\* the defaults of the destructuring: limit = 50, offset = 0
DefaultLimit == 50
DefaultOffset == 0

\* the rows the per-shop queries add, and the shop as getShops returns it
ShopWithDetails(item) ==
    [shop         |-> item.shop,
     openingHours |-> {h \in openingHours : h.shopId = item.shop.id},
     photos       |-> {ph \in photos : ph.shopId = item.shop.id},
     avgRating    |-> Number(item.avgRating),
     reviewCount  |-> item.reviewCount,
     distance     |-> item.distance]

RECURSIVE MapShopWithDetails(_)
MapShopWithDetails(items) ==
    IF items = <<>> THEN <<>>
    ELSE <<ShopWithDetails(Head(items))>> \o MapShopWithDetails(Tail(items))

\* variant: the radius filter also runs without a reference point, on rows
\* that have no distance
LocatedOrRadius(result, filters) ==
    LET shopsWithDistance == WithDistance(result, Get(filters.lat), Get(filters.lng))
        filteredShops == IF filters.radius # None
                         THEN FilterByRadius(shopsWithDistance, Get(filters.radius))
                         ELSE shopsWithDistance
    IN  IF filters.lat # None /\ filters.lng # None
        THEN (IF filters.sortBy = Some("distance")
              THEN SortByDistance(filteredShops) ELSE filteredShops)
        ELSE IF filters.radius # None THEN <<>> ELSE result

\* if (lat !== undefined && lng !== undefined): the distances, the radius
\* filter when there is a radius, the sort when sortBy is distance
Located(result, filters) ==
    LET shopsWithDistance == WithDistance(result, Get(filters.lat), Get(filters.lng))
        filteredShops == IF filters.radius # None
                         THEN FilterByRadius(shopsWithDistance, Get(filters.radius))
                         ELSE shopsWithDistance
    IN  IF filters.lat # None /\ filters.lng # None
        THEN (IF filters.sortBy = Some("distance")
              THEN SortByDistance(filteredShops) ELSE filteredShops)
        ELSE result

\* variant: the page is cut from the rows of the base query, the distances,
\* the radius filter and the sort come after
getShopsOfSlicedFirst(result, filters) ==
    LET limit == IF filters.limit = None THEN JsNumber(DefaultLimit) ELSE Get(filters.limit)
        offset == IF filters.offset = None THEN JsNumber(DefaultOffset)
                  ELSE Get(filters.offset)
    IN  MapShopWithDetails(Located(Slice(result, offset, JsPlus(offset, limit)), filters))

\* getShops after the base query gave result
getShopsOf(result, filters) ==
    LET limit == IF filters.limit = None THEN JsNumber(DefaultLimit) ELSE Get(filters.limit)
        offset == IF filters.offset = None THEN JsNumber(DefaultOffset)
                  ELSE Get(filters.offset)
    IN  MapShopWithDetails(Slice(Located(result, filters), offset, JsPlus(offset, limit)))

\* the results getShops may give
getShops(filters) == {getShopsOf(result, filters) : result \in BaseQuery(filters)}

\* getShopBySlug: the row of the slug, shops.slug being unique, and its ratings
\* from a query of their own; Number(avg) || 0
getShopBySlug(slug) ==
    LET found == {shop \in shops : shop.slug = slug}
        shop == CHOOSE x \in found : TRUE
        ratings == [avgRating   |-> AVG(ReviewsOfShop(shop.id)),
                    reviewCount |-> COUNT(ReviewsOfShop(shop.id))]
    IN  IF found = {} THEN None
        ELSE Some([shop         |-> shop,
                   openingHours |-> {h \in openingHours : h.shopId = shop.id},
                   photos       |-> {ph \in photos : ph.shopId = shop.id},
                   avgRating    |-> IF Number(ratings.avgRating) = 0 THEN 0
                                    ELSE Number(ratings.avgRating),
                   reviewCount  |-> IF ratings.reviewCount = 0 THEN 0
                                    ELSE ratings.reviewCount,
                   distance     |-> None])

----------------------------------------------------------------------------
(* Requests and responses *)

\* what the last request was: its route, and what its target was in the store
\* when its statement ran: "none" (the route has no target, or the request was
\* answered before any statement), "missing", "own" (a row of the caller),
\* "foreign"
Request(op, target) == [op |-> op, target |-> target]

Response(status, error, row) == [status |-> status, error |-> error, row |-> row]

NoRequest == Request("none", "none")
NoResponse == Response(0, NULL, None)

\* requireAuth: no session user, no handler
AuthRequired == Response(401, "Authentifizierung erforderlich", None)

Init ==
    /\ reviews = {}
    /\ nextReviewId = 1
    /\ reviewReqs = [h \in Handlers |-> None]
    /\ favorites = {}
    /\ nextFavoriteId = 1
    /\ favoriteReqs = [h \in Handlers |-> None]
    /\ now = 0
    /\ shops = SeedShops
    /\ nextShopId = 3
    /\ openingHours = {}
    /\ photos = {}
    /\ nextChildId = 1
    /\ adminReq = None
    /\ query = NoFilters
    /\ request = NoRequest
    /\ response = NoResponse
    /\ hoursReqs = [h \in Handlers |-> None]
    /\ slugReqs = [h \in Handlers |-> None]

\* no handler is between two of its database statements
NoRequestInFlight ==
    /\ \A h \in Handlers : reviewReqs[h] = None
    /\ \A h \in Handlers : favoriteReqs[h] = None

\* the :reviewId values that tell requests apart: the ids given so far, and 0
\* for the ids of no row
IssuedReviewIds == {i \in ReviewIds : i < nextReviewId}

\* a request is taken by the first handler that is free
Takes(h, reqs) == reqs[h] = None /\ \A g \in Handlers : g < h => reqs[g] # None

\* inserts a run may still make
ReviewIdsLeft ==
    MaxReviews + 1 - nextReviewId - Cardinality({h \in Handlers : reviewReqs[h] # None})
FavoriteIdsLeft ==
    MaxFavorites + 1 - nextFavoriteId
        - Cardinality({h \in Handlers : favoriteReqs[h] # None})

----------------------------------------------------------------------------
(* POST /api/reviews *)

\* reviewData of the route
ReviewData(data, session, client) ==
    [shopId      |-> Get(data.shopId),
     rating      |-> Get(data.rating),
     text        |-> Get(data.text),
     userId      |-> session,
     userHash    |-> IF session # NULL THEN NoHash ELSE createUserHash(client),
     isAnonymous |-> session = NULL,
     authorName  |-> IF session # NULL THEN NameOf(session) ELSE None]

\* the handler's last statement and its answer: storage.createReview(reviewData)
PostApiReviewsInsert(rows, id, reviewData) ==
    LET res == createReview(rows, reviewData, id)
    IN  [rows     |-> res.rows,
         nextId   |-> IF res.error = NULL THEN id + 1 ELSE id,
         awaits   |-> None,
         response |-> IF res.error = NULL THEN Response(201, NULL, res.row)
                      ELSE Response(500, "Bewertung konnte nicht erstellt werden", None)]

\* the handler up to its first database statement, that statement included:
\* the pre-check of a logged-in user, the insert of an anonymous client.
\* awaits: the reviewData a handler holds while its insert is still to come
PostApiReviewsResult(rows, id, session, client, body) ==
    LET validation == insertReviewSchema(body)
        data == validation.data
        unchanged == [rows |-> rows, nextId |-> id, awaits |-> None,
                      response |-> NoResponse]
    IN  IF ~validation.success
        THEN [unchanged EXCEPT !.response = Response(400, "Ungueltige Bewertungsdaten", None)]
        ELSE IF session # NULL
        THEN IF IsSome(getUserReviewForShop(rows, session, Get(data.shopId)))
             THEN [unchanged EXCEPT !.response = Response(409, "Du hast diesen Laden bereits bewertet. Du kannst deine Bewertung bearbeiten.", None)]
             ELSE [unchanged EXCEPT !.awaits = Some(ReviewData(data, session, client))]
        ELSE PostApiReviewsInsert(rows, id, ReviewData(data, session, client))

PostApiReviews(h, caller, body) ==
    LET res == PostApiReviewsResult(reviews, nextReviewId, caller.session,
                                    caller.client, body)
    IN
    /\ Takes(h, reviewReqs)
    /\ (res.rows # reviews \/ IsSome(res.awaits)) => ReviewIdsLeft > 0
    /\ reviews' = res.rows
    /\ nextReviewId' = res.nextId
    /\ reviewReqs' = [reviewReqs EXCEPT ![h] = res.awaits]
    /\ request' = Request("POST /api/reviews", "none")
    /\ response' = res.response
    /\ UNCHANGED <<shopVars, favoriteVars, now, asyncVars>>

\* a logged-in user's handler after its pre-check
PostApiReviewsCreate(h) ==
    /\ reviewReqs[h] # None
    /\ LET res == PostApiReviewsInsert(reviews, nextReviewId, Get(reviewReqs[h]))
       IN  /\ reviews' = res.rows
           /\ nextReviewId' = res.nextId
           /\ response' = res.response
    /\ reviewReqs' = [reviewReqs EXCEPT ![h] = None]
    /\ request' = Request("POST /api/reviews", "none")
    /\ UNCHANGED <<shopVars, favoriteVars, now, asyncVars>>

----------------------------------------------------------------------------
(* PUT /api/reviews/:reviewId and DELETE /api/reviews/:reviewId *)

\* what a review id is to a user
ReviewTarget(rows, reviewId, session) ==
    IF \A r \in rows : r.id # reviewId THEN "missing"
    ELSE IF \E r \in rows : r.id = reviewId /\ r.userId = session /\ session # NULL
    THEN "own" ELSE "foreign"

MutationFailure(error, message) ==
    IF error = NotFoundOrUnauthorized
    THEN Response(404, "Bewertung nicht gefunden oder nicht berechtigt", None)
    ELSE Response(500, message, None)

PutApiReviewsResult(rows, session, reviewId, body, t) ==
    LET validation == insertReviewSchemaPartial(body)
        res == updateReview(rows, reviewId, session, validation.data, t)
    IN  IF session = NULL THEN [rows |-> rows, response |-> AuthRequired]
        ELSE IF ~validation.success
        THEN [rows |-> rows, response |-> Response(400, "Ungueltige Bewertungsdaten", None)]
        ELSE [rows |-> res.rows,
              response |-> IF res.error = NULL THEN Response(200, NULL, res.row)
                           ELSE MutationFailure(res.error,
                                    "Bewertung konnte nicht aktualisiert werden")]

PutApiReviews(session, reviewId, body) ==
    LET res == PutApiReviewsResult(reviews, session, reviewId, body, now)
    IN
    /\ reviews' = res.rows
    /\ request' = Request("PUT /api/reviews",
                          IF res.response.status \in {400, 401} THEN "none"
                          ELSE ReviewTarget(reviews, reviewId, session))
    /\ response' = res.response
    /\ UNCHANGED <<shopVars, nextReviewId, reviewReqs, favoriteVars, now, asyncVars>>

DeleteApiReviewsResult(rows, session, reviewId) ==
    LET res == deleteReview(rows, reviewId, session)
    IN  IF session = NULL THEN [rows |-> rows, response |-> AuthRequired]
        ELSE [rows |-> res.rows,
              response |-> IF res.error = NULL THEN Response(200, NULL, None)
                           ELSE MutationFailure(res.error,
                                    "Bewertung konnte nicht geloescht werden")]

DeleteApiReviews(session, reviewId) ==
    LET res == DeleteApiReviewsResult(reviews, session, reviewId)
    IN
    /\ reviews' = res.rows
    /\ request' = Request("DELETE /api/reviews",
                          IF res.response.status = 401 THEN "none"
                          ELSE ReviewTarget(reviews, reviewId, session))
    /\ response' = res.response
    /\ UNCHANGED <<shopVars, nextReviewId, reviewReqs, favoriteVars, now, asyncVars>>

----------------------------------------------------------------------------
(* POST /api/auth/favorites/:shopId and DELETE /api/auth/favorites/:shopId *)

\* :shopId of a request
ShopIdParams == ShopIds \cup {UnknownShopId}

FavoriteTarget(rows, session, shopId) ==
    IF session = NULL THEN "none"
    ELSE IF \E f \in rows : f.userId = session /\ f.shopId = shopId THEN "own"
    ELSE "missing"

\* the handler up to the first statement of storage.addUserFavorite, the
\* SELECT of the existing rows, and the answers it may give: existing[0] is any
\* of the rows found (no ORDER BY).  awaits: the pair a handler holds while its
\* insert is still to come
PostApiAuthFavoritesResults(rows, session, shopId) ==
    LET existing == existingFavorites(rows, session, shopId)
    IN  IF session = NULL THEN {[awaits |-> None, response |-> AuthRequired]}
        ELSE IF existing # {}
        THEN {[awaits |-> None, response |-> Response(201, NULL, Some(e))] :
                 e \in existing}
        ELSE {[awaits |-> Some([userId |-> session, shopId |-> shopId]),
               response |-> NoResponse]}

PostApiAuthFavorites(h, session, shopId) ==
    /\ Takes(h, favoriteReqs)
    /\ \E res \in PostApiAuthFavoritesResults(favorites, session, shopId) :
          /\ IsSome(res.awaits) => FavoriteIdsLeft > 0
          /\ favoriteReqs' = [favoriteReqs EXCEPT ![h] = res.awaits]
          /\ response' = res.response
    /\ request' = Request("POST /api/auth/favorites",
                          FavoriteTarget(favorites, session, shopId))
    /\ UNCHANGED <<shopVars, reviewVars, now, asyncVars, favorites, nextFavoriteId>>

\* the handler after the SELECT found no row: the INSERT of storage.addUserFavorite
PostApiAuthFavoritesInsertResult(rows, id, pair, t) ==
    LET res == insertFavorite(rows, pair.userId, pair.shopId, id, t)
    IN  [rows     |-> res.rows,
         nextId   |-> IF res.error = NULL THEN id + 1 ELSE id,
         response |-> IF res.error = NULL THEN Response(201, NULL, res.row)
                      ELSE Response(500, "Favorit konnte nicht hinzugefuegt werden", None)]

PostApiAuthFavoritesInsert(h) ==
    /\ favoriteReqs[h] # None
    /\ LET res == PostApiAuthFavoritesInsertResult(favorites, nextFavoriteId,
                                                   Get(favoriteReqs[h]), now)
       IN  /\ favorites' = res.rows
           /\ nextFavoriteId' = res.nextId
           /\ response' = res.response
    /\ request' = Request("POST /api/auth/favorites", "missing")
    /\ favoriteReqs' = [favoriteReqs EXCEPT ![h] = None]
    /\ UNCHANGED <<shopVars, reviewVars, now, asyncVars>>

DeleteApiAuthFavoritesResult(rows, session, shopId) ==
    IF session = NULL THEN [rows |-> rows, response |-> AuthRequired]
    ELSE [rows |-> removeUserFavorite(rows, session, shopId),
          response |-> Response(200, NULL, None)]

DeleteApiAuthFavorites(session, shopId) ==
    LET res == DeleteApiAuthFavoritesResult(favorites, session, shopId)
    IN
    /\ favorites' = res.rows
    /\ response' = res.response
    /\ request' = Request("DELETE /api/auth/favorites",
                          FavoriteTarget(favorites, session, shopId))
    /\ UNCHANGED <<shopVars, reviewVars, now, asyncVars, nextFavoriteId, favoriteReqs>>

----------------------------------------------------------------------------
(* DatabaseStorage: shops, opening hours, photos *)

\* shops has a primary key on id, unique slug, unique google_place_id (NULLs
\* are distinct), and name, lat, lng, city NOT NULL
ShopColumnsOk(shop) ==
    /\ shop.name # None /\ shop.slug # None /\ shop.lat # None /\ shop.lng # None
    /\ shop.city # None
ShopUniqueOk(rows, row) ==
    /\ \A x \in rows : x.id # row.id
    /\ \A x \in rows : x.slug # row.slug
    /\ \A x \in rows : row.googlePlaceId = None \/ x.googlePlaceId # row.googlePlaceId

\* the columns a body may give a shop row
ShopFields ==
    {"name", "slug", "lat", "lng", "city", "priceLevel", "halal", "veg",
     "isPublished", "googlePlaceId"}

\* a body without fields
NoShopData ==
    [name |-> None, slug |-> None, lat |-> None, lng |-> None, city |-> None,
     priceLevel |-> None, halal |-> None, veg |-> None, isPublished |-> None,
     googlePlaceId |-> None, openingHours |-> None]

\* the columns whose value in a row is nullable, kept as None or Some
NullableShopFields == {"priceLevel", "googlePlaceId"}

\* .values(shop): the given columns, the defaults for the others
ShopValues(shop, id) ==
    LET default == ShopRow(id, <<>>, <<>>, 0, 0, "")
    IN  [f \in DOMAIN default |->
            IF f \in ShopFields /\ shop[f] # None
            THEN (IF f \in NullableShopFields THEN shop[f] ELSE Get(shop[f]))
            ELSE default[f]]

\* createShop: insert(shops).values(shop).returning()
createShop(rows, shop, id) ==
    LET row == ShopValues(shop, id)
    IN  IF ShopColumnsOk(shop) /\ ShopUniqueOk(rows, row)
        THEN [rows |-> rows \cup {row}, error |-> NULL, row |-> Some(row)]
        ELSE [rows |-> rows, error |-> "database error", row |-> None]

\* .set({...shop, updatedAt}): every column the body gives
ShopSet(row, shop) ==
    [f \in DOMAIN row |->
        IF f \in ShopFields /\ shop[f] # None
        THEN (IF f \in NullableShopFields THEN shop[f] ELSE Get(shop[f]))
        ELSE row[f]]

\* updateShop: update(shops).set(...).where(id = id).returning(); undefined
\* (None) when no row has the id
updateShop(rows, id, shop) ==
    LET matched == {x \in rows : x.id = id}
        updated == {ShopSet(x, shop) : x \in matched}
        rest == rows \ matched
    IN  IF \E row \in updated : ~ShopUniqueOk(rest, row)
        THEN [rows |-> rows, error |-> "database error", row |-> None]
        ELSE [rows |-> rest \cup updated, error |-> NULL,
              row |-> IF updated = {} THEN None ELSE Some(CHOOSE row \in updated : TRUE)]

\* updateShopWithGoogleData: the same statement with lastGoogleSync
updateShopWithGoogleData(rows, id, googleData) == updateShop(rows, id, googleData)

\* variant: a reference without ON DELETE CASCADE that the delete does not check
CascadeNoAction(rows, shopId) == rows

\* what ON DELETE CASCADE leaves of a table whose rows reference shops
Cascade(rows, shopId) == {x \in rows : x.shopId # shopId}

\* deleteShop: delete(shops).where(id = id); opening_hours, reviews, photos and
\* user_favorites reference shops ON DELETE CASCADE
deleteShop(id) ==
    [shops        |-> {x \in shops : x.id # id},
     openingHours |-> Cascade(openingHours, id),
     reviews      |-> Cascade(reviews, id),
     photos       |-> Cascade(photos, id),
     favorites    |-> Cascade(favorites, id)]

\* the hours a body or a Google place carries: weekday 1, 11:00 to 22:00
HoursData == <<[weekday |-> 1, openTime |-> Some("11:00"), closeTime |-> Some("22:00")]>>

\* the photos Google gives a place
PhotosData == <<[googlePhotoReference |-> "ref1"]>>

\* insert(openingHours).values(hours) with shopId set: rows with fresh ids; the
\* database refuses rows of a shop that does not exist
HoursRows(shopId, hours, id) ==
    {[id |-> id + i - 1, shopId |-> shopId, weekday |-> hours[i].weekday,
      openTime |-> hours[i].openTime, closeTime |-> hours[i].closeTime] :
        i \in 1 .. Len(hours)}

createOpeningHours(rows, shopId, hours, id) ==
    IF hours = <<>> THEN [rows |-> rows, error |-> NULL, nextId |-> id]
    ELSE IF ShopRefOk(shopId)
    THEN [rows |-> rows \cup HoursRows(shopId, hours, id), error |-> NULL,
          nextId |-> id + Len(hours)]
    ELSE [rows |-> rows, error |-> "database error", nextId |-> id]

\* updateOpeningHours: delete the hours of the shop, then insert the new ones
updateOpeningHours(rows, shopId, hours, id) ==
    createOpeningHours({h \in rows : h.shopId # shopId}, shopId, hours, id)

\* createPhotosFromGoogle
createPhotosFromGoogle(rows, shopId, googlePhotos, id) ==
    LET new == {[id |-> id + i - 1, shopId |-> shopId, source |-> "google",
                 googlePhotoReference |-> googlePhotos[i].googlePhotoReference] :
                   i \in 1 .. Len(googlePhotos)}
    IN  IF googlePhotos = <<>> THEN [rows |-> rows, error |-> NULL, nextId |-> id]
        ELSE IF ShopRefOk(shopId)
        THEN [rows |-> rows \cup new, error |-> NULL, nextId |-> id + Len(googlePhotos)]
        ELSE [rows |-> rows, error |-> "database error", nextId |-> id]

\* getShopByGooglePlaceId
getShopByGooglePlaceId(googlePlaceId) ==
    LET found == {x \in shops : x.googlePlaceId = Some(googlePlaceId)}
    IN  IF found = {} THEN None ELSE Some(CHOOSE x \in found : TRUE)

----------------------------------------------------------------------------
(* GET /api/shops, GET /api/top and GET /api/shops/:slug *)

\* a parameter of req.query: absent (None) or a text; a text is a decimal
\* numeral, the empty string, or another text ("abc")
NumberText(n) == Some([kind |-> "number", n |-> n])
GarbageText == Some([kind |-> "garbage", n |-> 0])
EmptyText == Some([kind |-> "empty", n |-> 0])

\* parseFloat and parseInt of a text: NaN unless it starts with a numeral
parseFloat(text) == IF text.kind = "number" THEN JsNumber(text.n) ELSE NaN
parseInt(text) == IF text.kind = "number" THEN JsNumber(text.n) ELSE NaN

\* x ? ... : undefined; the empty string is falsy
Truthy(param) == param # None /\ Get(param).kind # "empty"

NoQuery ==
    [city |-> None, lat |-> None, lng |-> None, radius |-> None, halal |-> None,
     veg |-> None, has_offers |-> None, has_delivery |-> None, by |-> None,
     limit |-> None, offset |-> None]

\* the filters GET /api/shops builds from req.query; limit = 50 and offset = 0
\* stand in for absent parameters
GetApiShopsFilters(q) ==
    [city        |-> q.city,
     lat         |-> IF Truthy(q.lat) THEN Some(parseFloat(Get(q.lat))) ELSE None,
     lng         |-> IF Truthy(q.lng) THEN Some(parseFloat(Get(q.lng))) ELSE None,
     radius      |-> IF Truthy(q.radius) THEN Some(parseInt(Get(q.radius))) ELSE None,
     halal       |-> q.halal = Some("true"),
     veg         |-> q.veg = Some("true"),
     hasOffers   |-> q.has_offers = Some("true"),
     hasDelivery |-> q.has_delivery = Some("true"),
     sortBy      |-> q.by,
     limit       |-> IF q.limit = None THEN Some(JsNumber(DefaultLimit))
                     ELSE Some(parseInt(Get(q.limit))),
     offset      |-> IF q.offset = None THEN Some(JsNumber(DefaultOffset))
                     ELSE Some(parseInt(Get(q.offset)))]

\* the answers GET /api/shops may give
GetApiShopsResults(q) ==
    {Response(200, NULL, Some(result)) : result \in getShops(GetApiShopsFilters(q))}

GetApiShops(q) ==
    /\ \E res \in GetApiShopsResults(q) : response' = res
    /\ request' = Request("GET /api/shops", "none")
    /\ query' = GetApiShopsFilters(q)
    /\ UNCHANGED <<reviewVars, favoriteVars, now, asyncVars, shopRows, adminReq>>

\* limit = 3 of GET /api/top
TopLimit == 3

\* the filters GET /api/top builds from req.query
GetApiTopFilters(q) ==
    [NoFilters EXCEPT !.city = q.city,
                      !.sortBy = Some("rating"),
                      !.limit = IF q.limit = None THEN Some(JsNumber(TopLimit))
                                ELSE Some(parseInt(Get(q.limit)))]

GetApiTopResults(q) ==
    {Response(200, NULL, Some(result)) : result \in getShops(GetApiTopFilters(q))}

GetApiTop(q) ==
    /\ \E res \in GetApiTopResults(q) : response' = res
    /\ request' = Request("GET /api/top", "none")
    /\ query' = GetApiTopFilters(q)
    /\ UNCHANGED <<reviewVars, favoriteVars, now, asyncVars, shopRows, adminReq>>

GetApiShopsSlugResult(slug) ==
    IF getShopBySlug(slug) = None THEN Response(404, "Shop not found", None)
    ELSE Response(200, NULL, getShopBySlug(slug))

GetApiShopsSlug(slug) ==
    /\ response' = GetApiShopsSlugResult(slug)
    /\ request' = Request("GET /api/shops/:slug",
                          IF getShopBySlug(slug) = None THEN "missing" ELSE "found")
    /\ UNCHANGED <<reviewVars, favoriteVars, now, asyncVars, shopVars>>

----------------------------------------------------------------------------
(* The admin routes: POST/PUT/DELETE /api/admin/shops, POST /api/admin/google/import *)

\* requireAdmin: the X-Admin-Secret header must be the secret
AdminRequired == Response(401, "Unauthorized", None)

\* opening_hours and photos rows a run may still insert
ChildIdsLeft == MaxChildren + 1 - nextChildId

\* the handler of POST /api/admin/shops up to storage.createShop: the slug is
\* generateSlug(req.body.name), which throws when the body has no name
PostApiAdminShopsResult(rows, id, body) ==
    LET shopData == [body EXCEPT !.slug = Some(generateSlug(Get(body.name)))]
        res == createShop(rows, shopData, id)
    IN  IF body.name = None \/ res.error # NULL
        THEN [rows |-> rows, awaits |-> None,
              response |-> Response(500, "Failed to create shop", None)]
        ELSE IF body.openingHours # None
        THEN [rows |-> res.rows,
              awaits |-> Some([op |-> "children", shopId |-> id, replaceHours |-> FALSE,
                               hours |-> Get(body.openingHours), photos |-> <<>>,
                               shop |-> res.row, status |-> 201,
                               failure |-> "Failed to create shop"]),
              response |-> NoResponse]
        ELSE [rows |-> res.rows, awaits |-> None,
              response |-> Response(201, NULL, res.row)]

PostApiAdminShops(admin, body) ==
    LET res == PostApiAdminShopsResult(shops, ShopIdOf(nextShopId), body)
    IN  /\ adminReq = None
        /\ nextShopId <= MaxShops
        /\ body.openingHours # None => ChildIdsLeft >= Len(Get(body.openingHours))
        /\ request' = Request("POST /api/admin/shops", "none")
        /\ IF ~admin
           THEN /\ response' = AdminRequired
                /\ UNCHANGED <<shops, nextShopId, adminReq>>
           ELSE /\ shops' = res.rows
                /\ nextShopId' = IF res.rows = shops THEN nextShopId ELSE nextShopId + 1
                /\ adminReq' = res.awaits
                /\ response' = res.response
        /\ UNCHANGED <<reviewVars, favoriteVars, now, asyncVars, openingHours, photos, nextChildId,
                       query>>

\* the handler of PUT /api/admin/shops/:id up to storage.updateShop; the body
\* goes to the statement as it is
PutApiAdminShopsResult(rows, id, body) ==
    LET res == updateShop(rows, id, body)
    IN  IF res.error # NULL
        THEN [rows |-> rows, awaits |-> None,
              response |-> Response(500, "Failed to update shop", None)]
        ELSE IF body.openingHours # None
        THEN [rows |-> res.rows,
              awaits |-> Some([op |-> "children", shopId |-> id, replaceHours |-> TRUE,
                               hours |-> Get(body.openingHours), photos |-> <<>>,
                               shop |-> res.row, status |-> 200,
                               failure |-> "Failed to update shop"]),
              response |-> NoResponse]
        ELSE [rows |-> res.rows, awaits |-> None,
              response |-> Response(200, NULL, res.row)]

PutApiAdminShops(admin, id, body) ==
    LET res == PutApiAdminShopsResult(shops, id, body)
    IN  /\ adminReq = None
        /\ body.openingHours # None => ChildIdsLeft >= Len(Get(body.openingHours))
        /\ request' = Request("PUT /api/admin/shops",
                              IF \E x \in shops : x.id = id THEN "found" ELSE "missing")
        /\ IF ~admin
           THEN /\ response' = AdminRequired
                /\ UNCHANGED <<shops, adminReq>>
           ELSE /\ shops' = res.rows
                /\ adminReq' = res.awaits
                /\ response' = res.response
        /\ UNCHANGED <<reviewVars, favoriteVars, now, asyncVars, nextShopId, openingHours, photos,
                       nextChildId, query>>

\* DELETE /api/admin/shops/:id
DeleteApiAdminShops(admin, id) ==
    LET res == deleteShop(id)
    IN  /\ adminReq = None
        /\ request' = Request("DELETE /api/admin/shops",
                              IF \E x \in shops : x.id = id THEN "found" ELSE "missing")
        /\ IF ~admin
           THEN /\ response' = AdminRequired
                /\ UNCHANGED <<shops, openingHours, reviews, photos, favorites>>
           ELSE /\ shops' = res.shops
                /\ openingHours' = res.openingHours
                /\ reviews' = res.reviews
                /\ photos' = res.photos
                /\ favorites' = res.favorites
                /\ response' = Response(204, NULL, None)
        /\ UNCHANGED <<nextReviewId, reviewReqs, nextFavoriteId, favoriteReqs, now, asyncVars,
                       nextShopId, nextChildId, adminReq, query>>

\* what Google Places tells of a place when asked: its name may have changed
\* since the last import
GoogleNames == {NameBey, NameOezAscii}
PlaceDetails ==
    {[name |-> n, opening_hours |-> h, photos |-> ph] :
        n \in GoogleNames, h \in {<<>>, HoursData}, ph \in {<<>>, PhotosData}}

\* GooglePlacesClient.convertToShopData: the place as shop data, published
convertToShopData(placeId, details) ==
    [NoShopData EXCEPT !.name = Some(details.name),
                       !.lat = Some(509177), !.lng = Some(133427),
                       !.city = Some("Freiberg"),
                       !.googlePlaceId = Some(placeId),
                       !.isPublished = Some(TRUE)]

\* the handler of POST /api/admin/google/import up to getShopByGooglePlaceId
PostApiAdminGoogleImportResult(placeId, forceUpdate) ==
    LET existingShop == getShopByGooglePlaceId(Get(placeId))
    IN  IF placeId = None
        THEN [awaits |-> None, response |-> Response(400, "Place ID is required", None)]
        ELSE IF existingShop # None /\ ~forceUpdate
        THEN [awaits |-> None,
              response |-> Response(409, "Shop already imported",
                                    Some(Get(existingShop)))]
        ELSE [awaits |-> Some([op |-> "import", placeId |-> Get(placeId),
                               existingShopId |-> IF existingShop = None THEN None
                                                  ELSE Some(Get(existingShop).id),
                               forceUpdate |-> forceUpdate]),
              response |-> NoResponse]

PostApiAdminGoogleImport(admin, placeId, forceUpdate) ==
    LET res == PostApiAdminGoogleImportResult(placeId, forceUpdate)
    IN  /\ adminReq = None
        /\ request' = Request("POST /api/admin/google/import", "none")
        /\ IF ~admin
           THEN response' = AdminRequired /\ UNCHANGED adminReq
           ELSE response' = res.response /\ adminReq' = res.awaits
        /\ UNCHANGED <<reviewVars, favoriteVars, now, asyncVars, shopRows, query>>

\* the handler after getPlaceDetails: the slug is generateSlug of the place's
\* name; the row of the place is updated when it exists and forceUpdate is set,
\* a row is inserted otherwise
GoogleImportWriteResult(rows, id, req, details) ==
    LET shopData == [convertToShopData(req.placeId, details)
                        EXCEPT !.slug = Some(generateSlug(details.name))]
        update == req.existingShopId # None /\ req.forceUpdate
        shopId == IF update THEN Get(req.existingShopId) ELSE id
        res == IF update THEN updateShopWithGoogleData(rows, shopId, shopData)
               ELSE createShop(rows, shopData, id)
    IN  IF res.error # NULL
        THEN [rows |-> rows, awaits |-> None,
              response |-> Response(500, "database error", None)]
        ELSE IF details.opening_hours = <<>> /\ details.photos = <<>>
        THEN [rows |-> res.rows, awaits |-> None,
              response |-> Response(201, NULL, res.row)]
        ELSE [rows |-> res.rows,
              awaits |-> Some([op |-> "children", shopId |-> shopId,
                               replaceHours |-> update /\ details.opening_hours # <<>>,
                               hours |-> details.opening_hours,
                               photos |-> details.photos, shop |-> res.row,
                               status |-> 201, failure |-> "database error"]),
              response |-> NoResponse]

PostApiAdminGoogleImportWrite(details) ==
    /\ adminReq # None
    /\ Get(adminReq).op = "import"
    /\ ChildIdsLeft >= Len(details.opening_hours) + Len(details.photos)
    /\ (Get(adminReq).existingShopId = None \/ ~Get(adminReq).forceUpdate)
          => nextShopId <= MaxShops
    /\ LET res == GoogleImportWriteResult(shops, ShopIdOf(nextShopId), Get(adminReq),
                                          details)
       IN  /\ shops' = res.rows
           /\ nextShopId' = IF Cardinality(res.rows) > Cardinality(shops)
                            THEN nextShopId + 1 ELSE nextShopId
           /\ adminReq' = res.awaits
           /\ response' = res.response
    /\ UNCHANGED <<reviewVars, favoriteVars, now, asyncVars, openingHours, photos, nextChildId,
                   query, request>>

\* the statements that follow the shop's: createOpeningHours for a new shop,
\* updateOpeningHours when the hours of a shop are replaced, then
\* createPhotosFromGoogle
AdminWriteChildrenResult(req) ==
    LET hours == IF req.replaceHours
                 THEN updateOpeningHours(openingHours, req.shopId, req.hours, nextChildId)
                 ELSE createOpeningHours(openingHours, req.shopId, req.hours, nextChildId)
        pics == createPhotosFromGoogle(photos, req.shopId, req.photos, hours.nextId)
    IN  IF hours.error # NULL
        THEN [openingHours |-> openingHours, photos |-> photos, nextId |-> nextChildId,
              response |-> Response(500, req.failure, None)]
        ELSE IF pics.error # NULL
        THEN [openingHours |-> hours.rows, photos |-> photos, nextId |-> hours.nextId,
              response |-> Response(500, req.failure, None)]
        ELSE [openingHours |-> hours.rows, photos |-> pics.rows, nextId |-> pics.nextId,
              response |-> Response(req.status, NULL, req.shop)]

AdminWriteChildren ==
    /\ adminReq # None
    /\ Get(adminReq).op = "children"
    /\ LET res == AdminWriteChildrenResult(Get(adminReq))
       IN  /\ openingHours' = res.openingHours
           /\ photos' = res.photos
           /\ nextChildId' = res.nextId
           /\ response' = res.response
    /\ adminReq' = None
    /\ UNCHANGED <<reviewVars, favoriteVars, now, asyncVars, shops, nextShopId, query, request>>

----------------
(* The clock *)

Tick ==
    /\ now < MaxNow
    /\ now' = now + 1
    /\ UNCHANGED <<shopVars, reviewVars, favoriteVars, asyncVars, request, response>>

----------------------------------------------------------------------------
(* Specifications *)

\* the review routes, requests served concurrently
ReviewNext ==
    \/ \E h \in Handlers, caller \in Callers, body \in PostBodies :
          PostApiReviews(h, caller, body)
    \/ \E h \in Handlers : PostApiReviewsCreate(h)
    \/ \E session \in Users, reviewId \in IssuedReviewIds, body \in PutBodies :
          PutApiReviews(session, reviewId, body)
    \/ PutApiReviews(NULL, 0, Absent)
    \/ \E session \in Users, reviewId \in IssuedReviewIds :
          DeleteApiReviews(session, reviewId)
    \/ DeleteApiReviews(NULL, 0)
ReviewSpec == Init /\ [][ReviewNext]_vars

\* the review routes, one request at a time: a request waits until no handler
\* is between two statements
ReviewSeqNext ==
    \/ \E h \in Handlers, caller \in Callers, body \in PostBodies :
          NoRequestInFlight /\ PostApiReviews(h, caller, body)
    \/ \E h \in Handlers : PostApiReviewsCreate(h)
    \/ \E session \in Users, reviewId \in IssuedReviewIds, body \in PutBodies :
          NoRequestInFlight /\ PutApiReviews(session, reviewId, body)
    \/ NoRequestInFlight /\ PutApiReviews(NULL, 0, Absent)
    \/ \E session \in Users, reviewId \in IssuedReviewIds :
          NoRequestInFlight /\ DeleteApiReviews(session, reviewId)
    \/ NoRequestInFlight /\ DeleteApiReviews(NULL, 0)
ReviewSeqSpec == Init /\ [][ReviewSeqNext]_vars

\* the favorite routes, requests served concurrently
FavoriteNext ==
    \/ \E h \in Handlers, session \in Sessions, shopId \in ShopIdParams :
          PostApiAuthFavorites(h, session, shopId)
    \/ \E h \in Handlers : PostApiAuthFavoritesInsert(h)
    \/ \E session \in Sessions, shopId \in ShopIdParams :
          DeleteApiAuthFavorites(session, shopId)
FavoriteSpec == Init /\ [][FavoriteNext]_vars

\* the favorite routes, one request at a time
FavoriteSeqNext ==
    \/ \E h \in Handlers, session \in Sessions, shopId \in ShopIdParams :
          NoRequestInFlight /\ PostApiAuthFavorites(h, session, shopId)
    \/ \E h \in Handlers : PostApiAuthFavoritesInsert(h)
    \/ \E session \in Sessions, shopId \in ShopIdParams :
          NoRequestInFlight /\ DeleteApiAuthFavorites(session, shopId)
FavoriteSeqSpec == Init /\ [][FavoriteSeqNext]_vars

\* requests of the shop queries: GET /api/shops sorted by rating and by
\* distance, a reference point with a radius, a radius alone, a limit that is
\* no number
ShopQueries ==
    { [NoQuery EXCEPT !.by = Some("rating")],
      [NoQuery EXCEPT !.by = Some("distance"), !.lat = NumberText(509177),
                      !.lng = NumberText(133407)],
      [NoQuery EXCEPT !.lat = NumberText(509157), !.lng = NumberText(133427),
                      !.radius = NumberText(230)],
      [NoQuery EXCEPT !.radius = NumberText(0)],
      [NoQuery EXCEPT !.limit = GarbageText] }
TopQueries == {NoQuery}

\* the slugs asked for
QueriedSlugs == {generateSlug(NameAli), generateSlug(NameBey)}

\* a body of POST /api/admin/shops: a shop of the name at 50.9157 north,
\* 13.3407 east
ShopData(name, city, priceLevel, isPublished) ==
    [NoShopData EXCEPT !.name = Some(name), !.lat = Some(509157), !.lng = Some(133407),
                       !.city = Some(city), !.priceLevel = priceLevel,
                       !.isPublished = Some(isPublished)]

\* the shops an admin adds while the directory is queried: one that ties with
\* the first shop on price and one without a price, published or not
QueriedShopBodies ==
    { ShopData(NameBey, "Freiberg", Some(1), TRUE),
      ShopData(NameBey, "Chemnitz", None, FALSE) }
QueriedShopPatches ==
    { [NoShopData EXCEPT !.isPublished = Some(FALSE)] }

\* the reviews sent while the directory is queried: ratings 2 and 5 for the
\* first shop
QueriedReviewBodies ==
    { Body("s1", Num(2, FALSE)), Body("s1", Num(5, FALSE)) }
AnonymousCaller == [session |-> NULL, client |-> CHOOSE c \in Clients : TRUE]

\* the shop queries next to admin creates and updates and anonymous reviews
ShopQueryNext ==
    \/ \E q \in ShopQueries : GetApiShops(q)
    \/ \E q \in TopQueries : GetApiTop(q)
    \/ \E slug \in QueriedSlugs : GetApiShopsSlug(slug)
    \/ \E body \in QueriedShopBodies : PostApiAdminShops(TRUE, body)
    \/ \E n \in 1 .. MaxShops, body \in QueriedShopPatches :
          PutApiAdminShops(TRUE, ShopIdOf(n), body)
    \/ \E body \in QueriedReviewBodies : PostApiReviews(1, AnonymousCaller, body)
ShopQuerySpec == Init /\ [][ShopQueryNext]_vars

\* the body of the admin's creates: a shop with opening hours
AdminShopBodies ==
    { [ShopData(NameBey, "Freiberg", Some(1), TRUE) EXCEPT !.openingHours = Some(HoursData)] }

\* the bodies of the admin's updates: a slug, other opening hours
AdminShopPatches ==
    { [NoShopData EXCEPT !.slug = Some(SlugMoved)],
      [NoShopData EXCEPT !.openingHours = Some(HoursData)] }

\* the ids of the admin's requests: the ids a run gives its shops
AdminShopIds == {ShopIdOf(n) : n \in 1..MaxShops}

\* what Google tells of the imported place: the name of the admin's shop with
\* hours and photos, or a name that gives the slug of the second shop
AdminPlaceDetails ==
    {details \in PlaceDetails :
        \/ details.name = NameBey /\ details.opening_hours # <<>> /\ details.photos # <<>>
        \/ details.name = NameOezAscii /\ details.opening_hours = <<>>
              /\ details.photos = <<>>}

\* the reviews and the favorite sent while the admin works
AdminReviewBodies == {Body("s1", Num(5, FALSE)), Body("s2", Num(5, FALSE))}
AdminFavoriteUser == CHOOSE u \in Users : TRUE
AdminFavoriteShop == ShopIdOf(1)

\* the admin routes of the shops and the Google import, next to anonymous
\* reviews and a favorite of a user
ShopAdminNext ==
    \/ \E body \in AdminShopBodies : PostApiAdminShops(TRUE, body)
    \/ \E body \in AdminShopPatches : PutApiAdminShops(TRUE, AdminFavoriteShop, body)
    \/ \E admin \in BOOLEAN, id \in AdminShopIds : DeleteApiAdminShops(admin, id)
    \/ \E forceUpdate \in BOOLEAN, placeId \in PlaceIds :
          PostApiAdminGoogleImport(TRUE, Some(placeId), forceUpdate)
    \/ \E details \in AdminPlaceDetails : PostApiAdminGoogleImportWrite(details)
    \/ AdminWriteChildren
    \/ \E body \in AdminReviewBodies : PostApiReviews(1, AnonymousCaller, body)
    \/ PostApiAuthFavorites(1, AdminFavoriteUser, AdminFavoriteShop)
    \/ PostApiAuthFavoritesInsert(1)
ShopAdminSpec == Init /\ [][ShopAdminNext]_vars

Next == ReviewNext \/ FavoriteNext \/ ShopQueryNext \/ ShopAdminNext \/ Tick
Spec == Init /\ [][Next]_vars

----------------------------------------------------------------------------
(* Properties *)

\* the rows of a logged-in author for a shop, the favorite rows of a pair
ReviewsBy(userId, shopId) ==
    {r \in reviews : r.userId # NULL /\ r.userId = userId /\ r.shopId = shopId}
FavoriteRows(userId, shopId) ==
    {f \in favorites : f.userId = userId /\ f.shopId = shopId}

\* a body the review route accepts and the database can store: the fields of a
\* review, an integer rating from 1 to 5, a shop that exists
WellFormed(body) ==
    /\ IsSome(body.shopId) /\ Get(body.shopId) \in ShopIds
    /\ IsSome(body.rating) /\ ~Get(body.rating).frac
    /\ Get(body.rating).n >= 1 /\ Get(body.rating).n <= 5
    /\ IsSome(body.text) /\ Get(body.text) <= MaxTextLen

\* C1: after any sequence of createReview, updateReview and deleteReview requests
\* served one at a time, the store holds at most one review per (userId, shopId)
\* with a userId, whatever fields the update endpoint accepts in a patch.
C1_OneReviewPerUserAndShop ==
    \A u \in Users, shopId \in ShopIds : Cardinality(ReviewsBy(u, shopId)) <= 1

\* C2: a request of a logged-in user that passes the route's validation, for a
\* shop the user already has a review of, is answered 409 with the duplicate
\* message, and it inserts nothing: the store stays as it is and no insert is
\* left to come.
C2_DuplicateIsConflict ==
    \A u \in Users, body \in PostBodies :
        LET res == PostApiReviewsResult(reviews, nextReviewId, u, NoClient, body)
        IN  (insertReviewSchema(body).success /\ ReviewsBy(u, Get(body.shopId)) # {})
            => /\ res.response.status = 409
               /\ res.response.error = "Du hast diesen Laden bereits bewertet. Du kannst deine Bewertung bearbeiten."
               /\ res.response.row = None
               /\ res.rows = reviews
               /\ res.nextId = nextReviewId
               /\ res.awaits = None

C2_Witness ==
    /\ request.op = "POST /api/reviews"
    /\ response.status = 409
    /\ reviews # {}

\* C3: while a handler of user u for shop S is between its pre-check and its
\* insert, a second request of u for S passes the pre-check too as long as no
\* review of u for S is stored; and the insert of a handler that passed the
\* pre-check is accepted whatever rows of u for S the store holds by then, so
\* two reviews of one (userId, shopId) pair can be stored.
C3_NothingRejectsTheSecondInsert ==
    \A h \in Handlers :
        reviewReqs[h] # None =>
            LET d == Get(reviewReqs[h])
                second == PostApiReviewsResult(reviews, nextReviewId, d.userId, NoClient,
                                               Body(d.shopId, d.rating))
                res == PostApiReviewsInsert(reviews, nextReviewId, d)
            IN  /\ ReviewsBy(d.userId, d.shopId) = {} => IsSome(second.awaits)
                /\ (~d.rating.frac /\ d.shopId \in ShopIds)
                   => /\ res.response.status = 201
                      /\ Cardinality(res.rows) = Cardinality(reviews) + 1
                      /\ reviews \subseteq res.rows
                      /\ \A r \in res.rows \ reviews :
                            r.userId = d.userId /\ r.shopId = d.shopId

C3_Witness ==
    /\ request.op = "POST /api/reviews"
    /\ response.status = 201
    /\ \E r1, r2 \in reviews :
          /\ r1.id # r2.id
          /\ r1.userId # NULL /\ r1.userId = r2.userId /\ r1.shopId = r2.shopId
          /\ ~r1.isEdited /\ ~r2.isEdited

\* the ids of the rows that are not the user's: rows of another user, anonymous rows
ForeignReviewIds(u) == {r.id : r \in {q \in reviews : q.userId # u}}

\* C4: an update or a delete of a review the caller did not write fails, and its
\* outcome (status, body, store) is the outcome of the same request for an id no
\* review has; for a well-formed patch that outcome is the 404 of the merged
\* not-found-or-unauthorized condition.
C4_ForeignLooksLikeMissing ==
    \A u \in Users : \A reviewId \in ForeignReviewIds(u) :
        /\ \A body \in PutBodies :
              LET foreign == PutApiReviewsResult(reviews, u, reviewId, body, now)
                  missing == PutApiReviewsResult(reviews, u, 0, body, now)
              IN  /\ foreign = missing
                  /\ foreign.response.status >= 400
                  /\ (\A f \in InsertReviewFields :
                         IsSome(body[f]) => WellFormed([Body("s1", Num(5, FALSE))
                                                          EXCEPT ![f] = body[f]]))
                     => /\ foreign.response.status = 404
                        /\ foreign.response.error =
                              "Bewertung nicht gefunden oder nicht berechtigt"
        /\ LET foreign == DeleteApiReviewsResult(reviews, u, reviewId)
               missing == DeleteApiReviewsResult(reviews, u, 0)
           IN  /\ foreign = missing
               /\ foreign.response.status = 404
               /\ foreign.response.error = "Bewertung nicht gefunden oder nicht berechtigt"

C4_Witness ==
    /\ request.op = "PUT /api/reviews"
    /\ request.target = "foreign"
    /\ response.status = 404

\* C5: an update or a delete changes or removes a stored review only when the
\* caller is logged in as the review's userId and names its id; it never touches
\* an anonymous review; and unless it is answered 200 it leaves every review as
\* it was.
OnlyOwnChanged(rows, session, reviewId, res) ==
    /\ \A r \in rows \ res.rows :
          session # NULL /\ r.userId = session /\ r.id = reviewId
    /\ \A r \in res.rows \ rows : r.userId = session /\ r.id = reviewId
    /\ \A r \in rows : r.userId = NULL => r \in res.rows
    /\ res.response.status # 200 => res.rows = rows

C5_OnlyTheOwnerMutates ==
    \A session \in Sessions, reviewId \in ReviewIds :
        /\ \A body \in PutBodies :
              OnlyOwnChanged(reviews, session, reviewId,
                             PutApiReviewsResult(reviews, session, reviewId, body, now))
        /\ OnlyOwnChanged(reviews, session, reviewId,
                          DeleteApiReviewsResult(reviews, session, reviewId))

C5_Witness ==
    /\ request.op = "DELETE /api/reviews"
    /\ request.target = "own"
    /\ response.status = 200
    /\ \E r \in reviews : r.userId = NULL

\* C6: in every reachable state, also with addFavorite requests of one
\* (userId, shopId) pair served concurrently, at most one favorite row exists per
\* pair.
C6_OneFavoritePerPair ==
    \A u \in Users, shopId \in ShopIds : Cardinality(FavoriteRows(u, shopId)) <= 1

\* C7: with requests served one at a time, an addFavorite(u, s) that follows
\* another leaves exactly one row of (u, s): the store never holds two, the insert
\* of the first call leaves exactly one, and a call that finds the row is answered
\* with that row and inserts nothing.
C7_SecondAddReturnsTheFirst ==
    \A u \in Users, shopId \in ShopIds :
        /\ Cardinality(FavoriteRows(u, shopId)) <= 1
        /\ \A h \in Handlers :
              favoriteReqs[h] = Some([userId |-> u, shopId |-> shopId])
              => LET res == PostApiAuthFavoritesInsertResult(favorites, nextFavoriteId,
                                                             Get(favoriteReqs[h]), now)
                 IN  /\ res.response.status = 201
                     /\ {f \in res.rows : f.userId = u /\ f.shopId = shopId}
                           = {Get(res.response.row)}
                     /\ favorites \subseteq res.rows
        /\ \A e \in FavoriteRows(u, shopId) :
              PostApiAuthFavoritesResults(favorites, u, shopId)
                 = {[awaits |-> None, response |-> Response(201, NULL, Some(e))]}

C7_Witness ==
    /\ request.op = "POST /api/auth/favorites"
    /\ request.target = "own"
    /\ response.status = 201
    /\ IsSome(response.row)
    /\ Get(response.row) \in favorites
    /\ \A f \in favorites :
          (f.userId = Get(response.row).userId /\ f.shopId = Get(response.row).shopId)
          => f = Get(response.row)

\* C8: removeFavorite(u, s) is answered 200 whether or not (u, s) is favorited;
\* it removes every row of (u, s) and no other row, so it leaves the store as it
\* was when (u, s) is not favorited.
C8_RemoveTouchesOnlyThePair ==
    \A u \in Users, shopId \in ShopIdParams :
        LET res == DeleteApiAuthFavoritesResult(favorites, u, shopId)
        IN  /\ res.response.status = 200
            /\ res.response.error = NULL
            /\ res.rows = favorites \ FavoriteRows(u, shopId)
            /\ FavoriteRows(u, shopId) = {} => res.rows = favorites

C8_Witness ==
    /\ request.op = "DELETE /api/auth/favorites"
    /\ request.target = "missing"
    /\ response.status = 200
    /\ favorites # {}

\* C9: a well-formed createReview request of an anonymous client is never
\* answered as a duplicate: it is answered 201 and adds one review, of that
\* client's hash and for that shop, whatever reviews the store holds; no request
\* of an anonymous client is answered 409.
C9_AnonymousIsNeverADuplicate ==
    \A client \in Clients, body \in PostBodies :
        LET res == PostApiReviewsResult(reviews, nextReviewId, NULL, client, body)
        IN  /\ res.response.status # 409
            /\ WellFormed(body)
               => /\ res.response.status = 201
                  /\ IsSome(res.response.row)
                  /\ Get(res.response.row) \notin reviews
                  /\ res.rows = reviews \cup {Get(res.response.row)}
                  /\ Get(res.response.row).shopId = Get(body.shopId)
                  /\ Get(res.response.row).userHash = createUserHash(client)
                  /\ Get(res.response.row).userId = NULL

C9_Witness ==
    /\ request.op = "POST /api/reviews"
    /\ response.status = 201
    /\ Get(response.row).userId = NULL
    /\ Get(response.row) \in reviews
    /\ \E r \in reviews :
          /\ r.id # Get(response.row).id
          /\ r.shopId = Get(response.row).shopId
          /\ r.userHash = Get(response.row).userHash

\* C10: every stored review has exactly one of userId and userHash: the userId
\* and no hash when it was sent by a logged-in user, a hash and no userId when it
\* was sent anonymously; an update changes neither.
C10_ExactlyOneIdentity ==
    /\ \A r \in reviews :
          \/ r.userId \in Users /\ r.userHash = NoHash /\ ~r.isAnonymous
          \/ r.userId = NULL /\ r.userHash \in {createUserHash(c) : c \in Clients}
                /\ r.isAnonymous
    /\ \A session \in Sessions, reviewId \in ReviewIds, body \in PutBodies :
          LET res == PutApiReviewsResult(reviews, session, reviewId, body, now)
          IN  \A r \in res.rows : \E q \in reviews :
                 q.id = r.id /\ q.userId = r.userId /\ q.userHash = r.userHash

C10_Witness ==
    /\ \E r \in reviews : r.isEdited /\ r.userId # NULL /\ r.userHash = NoHash
    /\ \E r \in reviews : r.userId = NULL /\ r.userHash # NoHash

(* Properties of the shop queries *)

\* the sort orders a caller of getShops may ask for, an unknown one included
SortOrders == {None, Some("rating"), Some("price"), Some("distance"), Some("name")}

\* the reference points and radii of the properties: the coordinates of the
\* model, and radii of nothing, of the smallest distance between two of them
\* and between the two larger distances
ReferencePoints == {<<JsNumber(lat), JsNumber(lng)>> : lat \in Lats, lng \in Lngs}
Radii == {JsNumber(0), JsNumber(140), JsNumber(230)}
Limits == {None, Some(JsNumber(1)), Some(JsNumber(2))}
Offsets == {None, Some(JsNumber(1))}
At(filters, point) == [filters EXCEPT !.lat = Some(point[1]), !.lng = Some(point[2])]

\* page k of the pages of limit shops: offset k * limit
Page(filters, limit, k) ==
    [filters EXCEPT !.limit = Some(JsNumber(limit)), !.offset = Some(JsNumber(k * limit))]

\* what the pages k .. last can give, one after the other
RECURSIVE PageConcats(_, _, _, _)
PageConcats(filters, limit, k, last) ==
    IF k > last THEN {<<>>}
    ELSE {page \o rest : page \in getShops(Page(filters, limit, k)),
                         rest \in PageConcats(filters, limit, k + 1, last)}

\* C11: on an unchanged datastore the pages of getShops at offsets 0, limit,
\* 2 * limit, ... put one after the other are a result of the request without
\* pagination, every shop once, also when shops tie on the sort key.
C11_PagesMakeTheFullResult ==
    \A sortBy \in SortOrders, limit \in {1, 2} :
        LET filters == [NoFilters EXCEPT !.sortBy = sortBy]
        IN  PageConcats(filters, limit, 0, Cardinality(shops) \div limit)
                \subseteq getShops(filters)

\* the distances of a result never go down
NonDecreasingDistance(result) ==
    \A i \in 1..Len(result), j \in 1..Len(result) :
        i < j => /\ IsSome(result[i].distance) /\ IsSome(result[j].distance)
                 /\ JsLeq(Get(result[i].distance), Get(result[j].distance))

\* C12: with sortBy = distance and a reference point, every result of getShops
\* is in non-decreasing order of the computed distance, for every offset and
\* limit and with or without a radius, whatever the prices and ratings are.
C12_SortedByDistance ==
    \A point \in ReferencePoints, radius \in {None, Some(JsNumber(230))},
       limit \in Limits, offset \in Offsets :
        LET filters == [At(NoFilters, point) EXCEPT !.sortBy = Some("distance"),
                            !.radius = radius, !.limit = limit, !.offset = offset]
        IN  \A result \in getShops(filters) : NonDecreasingDistance(result)

\* a request sorted by distance was answered with a nearer shop of a higher
\* price before a farther shop of a lower price
C12_Witness ==
    /\ request.op = "GET /api/shops"
    /\ query.sortBy = Some("distance")
    /\ response.status = 200
    /\ \E i \in 1..Len(Get(response.row)), j \in 1..Len(Get(response.row)) :
          LET a == Get(response.row)[i]
              b == Get(response.row)[j]
          IN  /\ i < j
              /\ Get(a.distance).n < Get(b.distance).n
              /\ IsSome(a.shop.priceLevel) /\ IsSome(b.shop.priceLevel)
              /\ Get(a.shop.priceLevel) > Get(b.shop.priceLevel)

\* the numeric parameters of GET /api/shops
NumericParameters == {"lat", "lng", "radius", "limit", "offset"}

\* C13: a lat, lng, radius, limit or offset that is no number gives the answers
\* the same request gives without that parameter: it filters nothing out,
\* empties no page and fails nothing.
C13_UnparsableIsAbsent ==
    \A parameter \in NumericParameters :
        \A q \in {NoQuery, [NoQuery EXCEPT !.lat = NumberText(509157),
                                           !.lng = NumberText(133427),
                                           !.radius = NumberText(230)]} :
            GetApiShopsResults([q EXCEPT ![parameter] = GarbageText])
                = GetApiShopsResults([q EXCEPT ![parameter] = None])

\* the average ratings of a result never go up
NonIncreasingRating(result) ==
    \A i \in 1..Len(result), j \in 1..Len(result) :
        i < j => result[i].avgRating >= result[j].avgRating

\* C14: with sortBy = rating every result of getShops, and every answer of
\* GET /api/top, is in non-increasing order of avgRating, a shop without
\* reviews counting as 0: no shop without reviews precedes a shop whose average
\* is positive.
C14_SortedByRating ==
    /\ \A limit \in Limits, offset \in Offsets :
          \A result \in getShops([NoFilters EXCEPT !.sortBy = Some("rating"),
                                      !.limit = limit, !.offset = offset]) :
              NonIncreasingRating(result)
    /\ \A q \in TopQueries : \A res \in GetApiTopResults(q) :
          NonIncreasingRating(Get(res.row))

\* the slugs a shop of the model can have
SlugsOfNames == {generateSlug(name) : name \in ShopNames}

\* C15: after every admin create and update, getShops returns no shop whose
\* isPublished is false and getShopBySlug returns no such shop.
C15_UnpublishedIsHidden ==
    /\ \A sortBy \in SortOrders :
          \A result \in getShops([NoFilters EXCEPT !.sortBy = sortBy]) :
              \A i \in 1..Len(result) : result[i].shop.isPublished
    /\ \A slug \in SlugsOfNames :
          IsSome(getShopBySlug(slug)) => Get(getShopBySlug(slug)).shop.isPublished

\* C16: with a reference point, a radius never gives more shops than the same
\* request (same other filters, limit and offset) gives without it, and every
\* shop it gives has a distance of at most the radius.
C16_RadiusOnlyRemoves ==
    \A point \in ReferencePoints, radius \in Radii, page \in {None, Some(JsNumber(1))},
       sortBy \in {None, Some("distance")} :
        LET without == [At(NoFilters, point) EXCEPT !.sortBy = sortBy, !.limit = page,
                                                    !.offset = page]
            with == [without EXCEPT !.radius = Some(radius)]
            counts == {Len(result) : result \in getShops(without)}
        IN  \A result \in getShops(with) :
               /\ \A n \in counts : Len(result) <= n
               /\ \A i \in 1..Len(result) :
                     /\ IsSome(result[i].distance)
                     /\ JsLeq(Get(result[i].distance), radius)

\* a request with a reference point and a radius was answered with some of the
\* published shops and not with all of them
C16_Witness ==
    /\ request.op = "GET /api/shops"
    /\ IsSome(query.lat) /\ IsSome(query.lng) /\ IsSome(query.radius)
    /\ response.status = 200
    /\ Len(Get(response.row)) > 0
    /\ Len(Get(response.row)) < Cardinality({shop \in shops : shop.isPublished})
    /\ \A shop \in shops :
          shop.isPublished
          => (JsLeq(calculateDistance(Get(query.lat), Get(query.lng),
                                      shop.lat, shop.lng),
                    Get(query.radius))
              <=> \E i \in 1..Len(Get(response.row)) :
                     Get(response.row)[i].shop.id = shop.id)

\* what a caller gives of a reference point when it does not give both halves
HalfPoints ==
    {<<None, None>>, <<Some(JsNumber(509157)), None>>, <<None, Some(JsNumber(133427))>>}

\* C17: when lat and lng are not both given, a radius changes nothing: getShops
\* gives the results it gives without the radius, no returned shop carries a
\* distance, and the request is no error.
C17_RadiusNeedsAReferencePoint ==
    /\ \A half \in HalfPoints, radius \in {JsNumber(0), JsNumber(230), NaN},
          page \in {None, Some(JsNumber(1))}, sortBy \in {None, Some("distance")} :
          LET without == [NoFilters EXCEPT !.lat = half[1], !.lng = half[2],
                              !.sortBy = sortBy, !.limit = page, !.offset = page]
              with == [without EXCEPT !.radius = Some(radius)]
          IN  /\ getShops(with) = getShops(without)
              /\ \A result \in getShops(with) :
                    \A i \in 1..Len(result) : result[i].distance = None
    /\ \A text \in {NumberText(0), NumberText(230), GarbageText} :
          \A res \in GetApiShopsResults([NoQuery EXCEPT !.radius = text]) :
              res.status = 200 /\ res.error = NULL

\* a request with a radius and no reference point was answered with every
\* published shop, none with a distance
C17_Witness ==
    /\ request.op = "GET /api/shops"
    /\ query.lat = None /\ query.lng = None
    /\ query.radius = Some(JsNumber(0))
    /\ response.status = 200
    /\ Len(Get(response.row)) = Cardinality({shop \in shops : shop.isPublished})
    /\ Len(Get(response.row)) > 1
    /\ \A i \in 1..Len(Get(response.row)) : Get(response.row)[i].distance = None

\* C18: the avgRating and the reviewCount getShops gives for a shop are those
\* getShopBySlug gives for it, over the same reviews; both are 0 for a shop
\* without reviews.
C18_ListAndDetailAgree ==
    \A sortBy \in {None, Some("rating")} :
        \A result \in getShops([NoFilters EXCEPT !.sortBy = sortBy]) :
            \A i \in 1..Len(result) :
                LET detail == getShopBySlug(result[i].shop.slug)
                IN  /\ IsSome(detail)
                    /\ Get(detail).shop.id = result[i].shop.id
                    /\ Get(detail).avgRating = result[i].avgRating
                    /\ Get(detail).reviewCount = result[i].reviewCount
                    /\ Get(detail).reviewCount
                          = Cardinality(ReviewsOfShop(result[i].shop.id))
                    /\ ReviewsOfShop(result[i].shop.id) = {}
                       => Get(detail).avgRating = 0 /\ Get(detail).reviewCount = 0

\* the shop of the detail request has reviews of two ratings, the detail answer
\* and the list carry neither rating as its average, and the list has a shop
\* without reviews
C18_Witness ==
    /\ request.op = "GET /api/shops/:slug"
    /\ response.status = 200
    /\ Get(response.row).reviewCount = 2
    /\ \A r \in ReviewsOfShop(Get(response.row).shop.id) :
          Get(response.row).avgRating # Numeric(r.rating)
    /\ \A result \in getShops(NoFilters) :
          /\ \E i \in 1..Len(result) :
                /\ result[i].shop.id = Get(response.row).shop.id
                /\ result[i].avgRating = Get(response.row).avgRating
          /\ \E i \in 1..Len(result) :
                result[i].reviewCount = 0 /\ result[i].avgRating = 0

(* Properties of the admin routes *)

\* the rows that are the shop's in every table that references shops
ChildrenOf(shopId) ==
    [openingHours |-> {x \in openingHours : x.shopId = shopId},
     reviews      |-> {x \in reviews : x.shopId = shopId},
     photos       |-> {x \in photos : x.shopId = shopId},
     favorites    |-> {x \in favorites : x.shopId = shopId}]

\* every row of rows keeps the slug the shop of its id has now
KeepsSlugs(rows) ==
    \A row \in rows : \A shop \in shops : shop.id = row.id => shop.slug = row.slug

\* C19: after every sequence of admin creates, admin updates, Google imports
\* and forced re-imports no two shops share a slug, and no shop's slug differs
\* from the slug it was created with: no create, update, import or forced
\* re-import changes the slug of a shop.
C19_SlugsUniqueAndFixed ==
    /\ \A a \in shops, b \in shops : a.slug = b.slug => a.id = b.id
    /\ \A body \in AdminShopBodies :
          KeepsSlugs(PostApiAdminShopsResult(shops, ShopIdOf(nextShopId), body).rows)
    /\ \A id \in AdminShopIds, body \in AdminShopPatches :
          KeepsSlugs(PutApiAdminShopsResult(shops, id, body).rows)
    /\ \A shop \in shops, details \in AdminPlaceDetails :
          IsSome(shop.googlePlaceId)
          => KeepsSlugs(GoogleImportWriteResult(
                 shops, ShopIdOf(nextShopId),
                 [op |-> "import", placeId |-> Get(shop.googlePlaceId),
                  existingShopId |-> Some(shop.id), forceUpdate |-> TRUE],
                 details).rows)

\* every row of a table that references shops is of a shop that exists
NoOrphans ==
    /\ \A x \in openingHours : ShopRefOk(x.shopId)
    /\ \A x \in reviews : ShopRefOk(x.shopId)
    /\ \A x \in photos : ShopRefOk(x.shopId)
    /\ \A x \in favorites : ShopRefOk(x.shopId)

\* deleteShop(id) removes the shop and its rows and nothing else
DeleteRemovesTheShopAndItsRows ==
    \A id \in AdminShopIds :
        LET res == deleteShop(id)
        IN  /\ res.shops = {x \in shops : x.id # id}
            /\ res.openingHours = openingHours \ ChildrenOf(id).openingHours
            /\ res.reviews = reviews \ ChildrenOf(id).reviews
            /\ res.photos = photos \ ChildrenOf(id).photos
            /\ res.favorites = favorites \ ChildrenOf(id).favorites
            /\ \A x \in res.openingHours \cup res.reviews \cup res.photos
                          \cup res.favorites : x.shopId # id

\* a step that removes a shop is an admin's DELETE of that shop, answered 204
OnlyDeleteRemoves ==
    (\E shop \in shops : \A x \in shops' : x.id # shop.id)
    => /\ request'.op = "DELETE /api/admin/shops"
       /\ request'.target = "found"
       /\ response'.status = 204

\* C20: after an admin's deleteShop(id) no opening-hours row, review, photo or
\* favorite of that shop remains and no row of another shop is removed; no
\* operation other than the admin's delete removes a shop.
C20_DeleteCascades ==
    /\ [](NoOrphans /\ DeleteRemovesTheShopAndItsRows)
    /\ [][OnlyDeleteRemoves]_vars

\* the first shop was deleted with its review, its favorite and its hours or
\* photos; the review of the second shop is still there
C20_Witness ==
    /\ request.op = "DELETE /api/admin/shops"
    /\ request.target = "found"
    /\ response.status = 204
    /\ ~ShopRefOk(ShopIdOf(1))
    /\ nextReviewId = 3 /\ Cardinality(reviews) = 1
    /\ \E r \in reviews : r.shopId = ShopIdOf(2)
    /\ nextFavoriteId = 2 /\ favorites = {}
    /\ nextChildId = MaxChildren + 1 /\ openingHours = {} /\ photos = {}

-----------------------------------------------------------------------------
(* Distances *)

\* a JavaScript number of the distance computation, kept to eight significant
\* decimal digits: s * m * 10^e with s the sign and m = 0 or
\* 10000000 <= m < 100000000; every operation rounds its magnitude, so that
\* an operation on negated operands gives the negated result, as IEEE does;
\* the sign 0 marks NaN, which every operation hands on
Fl(s, m, e) == [s |-> s, m |-> m, e |-> e]

FZero == Fl(1, 0, 0)
FNaN == Fl(0, 0, 0)

RECURSIVE Pow10(_)
Pow10(k) == IF k = 0 THEN 1 ELSE 10 * Pow10(k - 1)

RECURSIVE Norm(_, _, _)
Norm(s, m, e) ==
    IF m = 0 THEN FZero
    ELSE IF m >= 100000000 THEN Norm(s, (m + 5) \div 10, e + 1)
    ELSE IF m < 10000000 THEN Norm(s, m * 10, e - 1)
    ELSE Fl(s, m, e)

Abs(n) == IF n < 0 THEN 0 - n ELSE n
Sign(n) == IF n < 0 THEN 0 - 1 ELSE 1

\* the number n * 10^-k
FromDec(n, k) == Norm(Sign(n), Abs(n), 0 - k)
FromInt(n) == FromDec(n, 0)

FNeg(x) == [x EXCEPT !.s = 0 - x.s]

\* x + y: the operand of the smaller exponent is shifted onto the other's
\* digits, one guard digit kept
FAdd(x, y) ==
    IF x.s = 0 \/ y.s = 0 THEN FNaN
    ELSE IF x.m = 0 THEN y
    ELSE IF y.m = 0 THEN x
    ELSE LET big == IF x.e >= y.e THEN x ELSE y
             small == IF x.e >= y.e THEN y ELSE x
             d == big.e - small.e
             sm == IF d > 9 THEN 0 ELSE (small.m * 10) \div Pow10(d)
             sum == big.s * big.m * 10 + small.s * sm
         IN  Norm(Sign(sum), Abs(sum), big.e - 1)

FSub(x, y) == FAdd(x, FNeg(y))

\* x * y, the mantissas multiplied in halves of four digits
FMul(x, y) ==
    LET h1 == x.m \div 10000
        l1 == x.m % 10000
        h2 == y.m \div 10000
        l2 == y.m % 10000
        p == h1 * h2 + (h1 * l2 + l1 * h2 + (l1 * l2) \div 10000) \div 10000
    IN  IF x.s = 0 \/ y.s = 0 THEN FNaN ELSE Norm(x.s * y.s, p, x.e + y.e + 8)

\* the first k digits of r / d, by long division
RECURSIVE DivDigits(_, _, _, _)
DivDigits(r, d, k, acc) ==
    IF k = 0 THEN acc ELSE DivDigits((r % d) * 10, d, k - 1, acc * 10 + r \div d)

\* x / y for y other than 0
FDiv(x, y) ==
    IF x.s = 0 \/ y.s = 0 THEN FNaN
    ELSE IF x.m = 0 THEN FZero
    ELSE Norm(x.s * y.s, DivDigits(x.m, y.m, 9, 0), x.e - y.e - 8)

\* x <= y
FLeq(x, y) ==
    LET d == FSub(y, x) IN d.s # 0 /\ (d.m = 0 \/ d.s = 1)

\* the largest integer whose square is at most n
RECURSIVE ISqrt(_, _)
ISqrt(n, g) ==
    LET next == (g + n \div g) \div 2
    IN  IF next >= g THEN g ELSE ISqrt(n, next)

\* Math.sqrt: NaN for a number below 0, else the integer root of the
\* mantissa and two steps of Newton's iteration
MathSqrt(x) ==
    IF x.s = 0 \/ (x.s < 0 /\ x.m # 0) THEN FNaN
    ELSE IF x.m = 0 THEN FZero
    ELSE LET odd == x.e % 2 /= 0
             m == IF odd THEN x.m * 10 ELSE x.m
             e == IF odd THEN x.e - 1 ELSE x.e
             g0 == Norm(1, ISqrt(m, 31623), e \div 2)
             half == FromDec(5, 1)
             g1 == FMul(half, FAdd(g0, FDiv(x, g0)))
         IN  FMul(half, FAdd(g1, FDiv(x, g1)))

\* acc + term - term * x2 / (k * (k + 1)) + ..., n terms
RECURSIVE Series(_, _, _, _, _)
Series(x2, term, k, n, acc) ==
    IF n = 0 THEN acc
    ELSE Series(x2, FDiv(FNeg(FMul(term, x2)), FromInt(k * (k + 1))), k + 2, n - 1,
                FAdd(acc, term))

\* Math.sin and Math.cos for an angle between -pi and pi
MathSin(x) == Series(FMul(x, x), x, 2, 13, FZero)
MathCos(x) == Series(FMul(x, x), FromInt(1), 1, 13, FZero)

\* acc + power / k - power * t2 / (k + 2) + ..., n terms
RECURSIVE AtanSeries(_, _, _, _, _)
AtanSeries(t2, power, k, n, acc) ==
    IF n = 0 THEN acc
    ELSE AtanSeries(t2, FNeg(FMul(power, t2)), k + 2, n - 1,
                    FAdd(acc, FDiv(power, FromInt(k))))

MathPI == Fl(1, 31415927, 0 - 7)

\* the arc tangent of 0 <= t <= 1: the argument is halved twice by
\* atan t = 2 atan (t / (1 + sqrt(1 + t * t)))
AtanHalf(t) == FDiv(t, FAdd(FromInt(1), MathSqrt(FAdd(FromInt(1), FMul(t, t)))))

Atan(t) ==
    LET u == AtanHalf(AtanHalf(t))
    IN  FMul(FromInt(4), AtanSeries(FMul(u, u), u, 1, 8, FZero))

\* Math.atan2(y, x) for y >= 0 and x >= 0
MathAtan2(y, x) ==
    IF y.s = 0 \/ x.s = 0 THEN FNaN
    ELSE IF y.m = 0 THEN FZero
    ELSE IF FLeq(y, x) THEN Atan(FDiv(y, x))
    ELSE FSub(FDiv(MathPI, FromInt(2)), Atan(FDiv(x, y)))

\* Math.round of x: the integer nearest to x, a half rounded upwards; NaN
\* for NaN
MathRound(x) ==
    IF x.s = 0 THEN NaN
    ELSE IF x.e >= 0 THEN JsNumber(x.s * x.m * Pow10(x.e))
    ELSE IF x.e < 0 - 9 THEN JsNumber(0)
    ELSE LET twice == 2 * x.m
             f == twice \div Pow10(0 - x.e)          \* the floor of 2 |x|
             whole == twice % Pow10(0 - x.e) = 0
         IN  IF x.s = 1 THEN JsNumber((f + 1) \div 2)
             ELSE JsNumber(0 - (f \div 2 + (IF f % 2 = 1 /\ ~whole THEN 1 ELSE 0)))

degreesToRadians(degrees) == FMul(degrees, FDiv(MathPI, FromInt(180)))

\* the great-circle length in kilometres that both calculateDistance
\* functions compute before they round; the coordinates are numbers of
\* degrees
Haversine(lat1, lng1, lat2, lng2) ==
    LET R == FromInt(6371)
        dLat == degreesToRadians(FSub(lat2, lat1))
        dLng == degreesToRadians(FSub(lng2, lng1))
        two == FromInt(2)
        sinLat == MathSin(FDiv(dLat, two))
        sinLng == MathSin(FDiv(dLng, two))
        a == FAdd(FMul(sinLat, sinLat),
                  FMul(FMul(FMul(MathCos(degreesToRadians(lat1)),
                                 MathCos(degreesToRadians(lat2))),
                            sinLng),
                       sinLng))
        c == FMul(two, MathAtan2(MathSqrt(a), MathSqrt(FSub(FromInt(1), a))))
    IN  FMul(R, c)

\* DatabaseStorage.calculateDistance: metres, rounded
serverCalculateDistance(lat1, lng1, lat2, lng2) ==
    MathRound(FMul(Haversine(lat1, lng1, lat2, lng2), FromInt(1000)))

\* calculateDistance of the client: kilometres rounded to two decimals, here
\* the number of hundredths
clientCalculateDistance(lat1, lng1, lat2, lng2) ==
    MathRound(FMul(Haversine(lat1, lng1, lat2, lng2), FromInt(100)))

\* points of the distance computation, in ten-thousandths of a degree: the
\* shops' coordinates and places far from them, the poles, the date line and
\* two places opposite each other on the globe
DistancePoints ==
    [lat : Lats, lng : Lngs] \cup
    { [lat |-> 525200, lng |-> 134050], [lat |-> 489000, lng |-> 23000],
      [lat |-> 0 - 338700, lng |-> 1512100], [lat |-> 0, lng |-> 0],
      [lat |-> 0, lng |-> 1800000], [lat |-> 900000, lng |-> 0],
      [lat |-> 0 - 900000, lng |-> 0], [lat |-> 450000, lng |-> 0],
      [lat |-> 0 - 450000, lng |-> 1800000] }

Degrees(n) == FromDec(n, 4)

\* a call of DatabaseStorage.calculateDistance with the points of the request
CalculateDistance ==
    /\ request.op = "calculateDistance"
    /\ response = NoResponse
    /\ LET p1 == request.target[1]
           p2 == request.target[2]
       IN  response' = Response(200, NULL,
                                Some(serverCalculateDistance(Degrees(p1.lat), Degrees(p1.lng),
                                                             Degrees(p2.lat), Degrees(p2.lng))))
    /\ UNCHANGED <<shopVars, reviewVars, favoriteVars, now, asyncVars, request>>

\* 2^k modulo 100
RECURSIVE PowerOfTwoMod100(_)
PowerOfTwoMod100(k) == IF k = 0 THEN 1 ELSE (2 * PowerOfTwoMod100(k - 1)) % 100

\* whether the double nearest to h / 100, 100 <= h < 1000, is at least
\* h / 100: the double is a multiple of 2^(e - 52) for 2^e <= h / 100 < 2^(e + 1),
\* and it lies on the side the remainder of h * 2^(52 - e) by 100 tells
DoubleNotBelow(h) ==
    LET e == IF h < 200 THEN 0 ELSE IF h < 400 THEN 1 ELSE IF h < 800 THEN 2 ELSE 3
        r == ((h % 100) * PowerOfTwoMod100(52 - e)) % 100
    IN  r = 0 \/ r > 50

\* a distance text: "260m" is DistanceText(260, None, "m"), "1.3km" is
\* DistanceText(1, Some(3), "km")
DistanceText(whole, tenth, unit) == [whole |-> whole, tenth |-> tenth, unit |-> unit]

\* formatDistance of a number given in hundredths: below 1 the thousandfold
\* rounded, with "m"; below 10 toFixed(1), which takes the tenth nearest to
\* the double and of two equally near the larger, with "km"; else the number
\* rounded, with "km", which for NaN, below nothing, is "NaNkm"
formatDistance(distance) ==
    IF distance.nan THEN DistanceText(0, None, "NaNkm")
    ELSE IF distance.n < 100 THEN DistanceText(distance.n * 10, None, "m")
    ELSE IF distance.n < 1000
         THEN LET up == distance.n % 10 > 5
                        \/ (distance.n % 10 = 5 /\ DoubleNotBelow(distance.n))
                  tenths == distance.n \div 10 + (IF up THEN 1 ELSE 0)
              IN  DistanceText(tenths \div 10, Some(tenths % 10), "km")
    ELSE DistanceText((distance.n + 50) \div 100, None, "km")

\* the distance badge of ShopCard: the client's calculateDistance when the
\* card has the user's location and the shop has coordinates, else the
\* distance the server put on the shop, a number of metres; the number goes
\* to formatDistance as it is; a card without a distance has no badge, and
\* for the numbers 0 and NaN, which are falsy, React renders the bare number
ShopCard(userLocation, shop) ==
    LET distance ==
            IF IsSome(userLocation)
            THEN Some(clientCalculateDistance(Degrees(Get(userLocation).lat),
                                              Degrees(Get(userLocation).lng),
                                              Degrees(shop.lat), Degrees(shop.lng)))
            ELSE IF shop.distance = None THEN None
            ELSE IF Get(shop.distance).nan THEN Some(NaN)
            ELSE Some(JsNumber(Get(shop.distance).n * 100))
    IN  IF distance = None THEN None
        ELSE IF Get(distance).nan THEN Some(DistanceText(0, None, "NaN"))
        ELSE IF Get(distance).n = 0 THEN Some(DistanceText(0, None, ""))
        ELSE Some(formatDistance(Get(distance)))

\* a shop of a result of getShops with the reference point from
ShopItem(from, shop) ==
    [lat |-> shop.lat, lng |-> shop.lng,
     distance |-> Some(serverCalculateDistance(Degrees(from.lat), Degrees(from.lng),
                                               Degrees(shop.lat), Degrees(shop.lng)))]

\* the card of the request is rendered
RenderShopCard ==
    /\ request.op = "ShopCard"
    /\ response = NoResponse
    /\ response' = Response(200, NULL,
                            ShopCard(request.target.userLocation, request.target.shop))
    /\ UNCHANGED <<shopVars, reviewVars, favoriteVars, now, asyncVars, request>>

\* the calls of calculateDistance for every two points, and the cards of the
\* shops of a result of getShops, rendered with the user's location, which is
\* the reference point of the result, and without it
DistanceRequests ==
    { Request("calculateDistance", <<p1, p2>>) : p1 \in DistancePoints, p2 \in DistancePoints }
    \cup
    { Request("ShopCard", [userLocation |-> IF located THEN Some(from) ELSE None,
                          from |-> from, shop |-> ShopItem(from, shop)]) :
        located \in BOOLEAN, from \in DistancePoints, shop \in DistancePoints }

\* the store after construction with one of the requests waiting for its
\* answer
Started(requests) ==
    /\ reviews = {}
    /\ nextReviewId = 1
    /\ reviewReqs = [h \in Handlers |-> None]
    /\ favorites = {}
    /\ nextFavoriteId = 1
    /\ favoriteReqs = [h \in Handlers |-> None]
    /\ now = 0
    /\ shops = SeedShops
    /\ nextShopId = 3
    /\ openingHours = {}
    /\ photos = {}
    /\ nextChildId = 1
    /\ adminReq = None
    /\ query = NoFilters
    /\ request \in requests
    /\ response = NoResponse
    /\ hoursReqs = [h \in Handlers |-> None]
    /\ slugReqs = [h \in Handlers |-> None]

DistanceInit == Started(DistanceRequests)

DistanceNext == CalculateDistance \/ RenderShopCard

DistanceSpec == DistanceInit /\ [][DistanceNext]_vars

-----------------------------------------------------------------------------
(* Properties of the distances *)

C22_SameDistanceText ==
    (request.op = "ShopCard" /\ response # NoResponse) =>
        LET from == request.target.from
            shop == request.target.shop
            metres == Get(shop.distance)
            hundredths == clientCalculateDistance(Degrees(from.lat), Degrees(from.lng),
                                                  Degrees(shop.lat), Degrees(shop.lng))
        IN  /\ metres.nan = hundredths.nan
            /\ ~metres.nan => Abs(metres.n - 10 * hundredths.n) <= 5
            /\ response.row = ShopCard(IF IsSome(request.target.userLocation)
                                       THEN None ELSE Some(from), shop)

-----------------------------------------------------------------------------
(* Pages and orders of the shop list *)

\* requests of pages and orders: the second shop by distance, two shops
\* within 230 m, the orders by price, by default and by an unknown key
PageQueries ==
    { [NoQuery EXCEPT !.by = Some("distance"), !.lat = NumberText(509177),
                      !.lng = NumberText(133407), !.limit = NumberText(1),
                      !.offset = NumberText(1)],
      [NoQuery EXCEPT !.lat = NumberText(509157), !.lng = NumberText(133427),
                      !.radius = NumberText(230), !.limit = NumberText(2)],
      [NoQuery EXCEPT !.by = Some("price")],
      [NoQuery EXCEPT !.by = Some("name"), !.limit = NumberText(2)],
      NoQuery }

\* the shops an admin adds meanwhile: one that ties with the first shop on
\* price, one without a price
PagedShopBodies ==
    { ShopData(NameBey, "Freiberg", Some(1), TRUE),
      ShopData(NameBey, "Freiberg", None, TRUE) }

\* the reviews sent meanwhile: rating 2 for the first shop, rating 5 for the
\* shop the admin adds
PagedReviewBodies == { Body(ShopIdOf(1), Num(2, FALSE)), Body(ShopIdOf(3), Num(5, FALSE)) }

\* the shop list next to admin creates and anonymous reviews
ShopPageNext ==
    \/ \E q \in PageQueries : GetApiShops(q)
    \/ \E body \in PagedShopBodies : PostApiAdminShops(TRUE, body)
    \/ \E body \in PagedReviewBodies : PostApiReviews(1, AnonymousCaller, body)
ShopPageSpec == Init /\ [][ShopPageNext]_vars

\* the published shops within the radius of a point
ShopsWithin(point, radius) ==
    {shop \in shops :
        /\ shop.isPublished
        /\ JsLeq(calculateDistance(point[1], point[2], shop.lat, shop.lng), radius)}

\* C23: the page of getShops holds the elements offset .. offset + limit - 1
\* of the complete list, the list after the radius filter and the distance
\* sort ran over all rows of the base query: it has at most limit elements,
\* the complete list holds every published shop within the radius and is in
\* the order of the distances when that is the sort, and the default limit
\* is 50
C23_PageOfTheCompleteList ==
    /\ DefaultLimit = 50
    /\ \A point \in {<<JsNumber(509157), JsNumber(133427)>>, <<JsNumber(509177), JsNumber(133407)>>},
          radius \in {None, Some(JsNumber(230))}, sortBy \in {None, Some("distance")},
          limit \in {1, 2}, offset \in {0, 1} :
          LET all == [At(NoFilters, point) EXCEPT !.radius = radius, !.sortBy = sortBy]
              paged == [all EXCEPT !.limit = Some(JsNumber(limit)),
                                   !.offset = Some(JsNumber(offset))]
          IN  \A result \in BaseQuery(all) :
                 LET complete == getShopsOf(result, all)
                     page == getShopsOf(result, paged)
                     rest == IF Len(complete) > offset THEN Len(complete) - offset ELSE 0
                 IN  /\ Len(page) = IF rest < limit THEN rest ELSE limit
                     /\ \A i \in 1 .. Len(page) : page[i] = complete[offset + i]
                     /\ radius # None =>
                           {complete[i].shop : i \in 1 .. Len(complete)}
                              = ShopsWithin(point, Get(radius))
                     /\ sortBy = Some("distance") => NonDecreasingDistance(complete)

\* a page of one shop was answered that begins behind the nearest shop of
\* the order by distance
C23_Witness ==
    /\ request.op = "GET /api/shops"
    /\ response.status = 200
    /\ query.sortBy = Some("distance")
    /\ query.offset = Some(JsNumber(1))
    /\ Len(Get(response.row)) = 1
    /\ Get(Get(response.row)[1].distance).n > 0

\* the ids of the shops of a list, in its order
RECURSIVE ShopIdsOf(_)
ShopIdsOf(list) ==
    IF list = <<>> THEN <<>> ELSE <<Head(list).shop.id>> \o ShopIdsOf(Tail(list))

\* the price levels of a list never go down; a shop without a price level has
\* no place in that order
AscendingPrice(list) ==
    \A i \in 1 .. Len(list), j \in 1 .. Len(list) :
        (i < j /\ IsSome(list[i].shop.priceLevel) /\ IsSome(list[j].shop.priceLevel))
            => Get(list[i].shop.priceLevel) <= Get(list[j].shop.priceLevel)

\* among shops of the same price level the average ratings never go up
DescendingRatingPerPrice(list) ==
    \A i \in 1 .. Len(list), j \in 1 .. Len(list) :
        (i < j /\ list[i].shop.priceLevel = list[j].shop.priceLevel)
            => list[i].avgRating >= list[j].avgRating

\* the shops a radius keeps are in the order they have without the radius
RadiusKeepsOrder(result, filters) ==
    \A point \in {<<JsNumber(509157), JsNumber(133427)>>},
       radius \in {JsNumber(140), JsNumber(230)} :
        LET list == ShopIdsOf(getShopsOf(result, filters))
            near == ShopIdsOf(getShopsOf(result, [At(filters, point) EXCEPT
                                                      !.radius = Some(radius)]))
            Kept(id) == \E i \in 1 .. Len(near) : near[i] = id
        IN  near = SelectSeq(list, Kept)

\* C24: without sortBy, and with a sortBy that is none of rating, price and
\* distance, getShops gives the shops by ascending price level and among
\* equal price levels by descending average rating; with sortBy = price by
\* ascending price level; a radius filter keeps that relative order
C24_PriceThenRating ==
    \A sortBy \in {None, Some("name"), Some("price")} :
        LET filters == [NoFilters EXCEPT !.sortBy = sortBy]
        IN  \A result \in BaseQuery(filters) :
               /\ AscendingPrice(getShopsOf(result, filters))
               /\ sortBy # Some("price") =>
                     DescendingRatingPerPrice(getShopsOf(result, filters))
               /\ RadiusKeepsOrder(result, filters)

-----------------------------------------------------------------------------
(* Opening hours on the client *)

\* an entry of shop.openingHours as the client has it; a time is absent or a
\* text, "11:00" being NumberText(1100)
HoursEntry(weekday, openTime, closeTime) ==
    [weekday |-> weekday, openTime |-> openTime, closeTime |-> closeTime]

\* the instant new Date() gives: getDay(), getHours(), getMinutes()
Instant(day, hours, minutes) == [day |-> day, hours |-> hours, minutes |-> minutes]

\* openingHours.find(hours => hours.weekday === currentDay): the first entry
\* of the day
RECURSIVE Find(_, _)
Find(entries, currentDay) ==
    IF entries = <<>> THEN None
    ELSE IF Head(entries).weekday = currentDay THEN Some(Head(entries))
    ELSE Find(Tail(entries), currentDay)

\* isShopOpen at the instant date; parseInt(time.replace(':', '')) is the
\* number HHMM of a time HH:MM
isShopOpen(entries, date) ==
    LET currentTime == date.hours * 100 + date.minutes
        todayHours == Find(entries, date.day)
        openTime == parseInt(Get(Get(todayHours).openTime))
        closeTime == parseInt(Get(Get(todayHours).closeTime))
    IN  IF entries = <<>> THEN FALSE
        ELSE IF todayHours = None \/ ~Truthy(Get(todayHours).openTime)
                \/ ~Truthy(Get(todayHours).closeTime) THEN FALSE
        ELSE IF openTime.nan \/ closeTime.nan THEN FALSE
        ELSE IF closeTime.n < openTime.n
             THEN currentTime >= openTime.n \/ currentTime <= closeTime.n
        ELSE currentTime >= openTime.n /\ currentTime <= closeTime.n

\* the entries of the calls: Monday and Tuesday, opening at 11:00 or 18:00 or
\* without a time, closing at 22:00, at 02:00 of the next day, with a text
\* that is no time or without a time
HoursEntries ==
    { HoursEntry(weekday, openTime, closeTime) :
        weekday \in {1, 2},
        openTime \in {None, NumberText(1100), NumberText(1800)},
        closeTime \in {None, NumberText(2200), NumberText(200), GarbageText} }

\* the instants of the calls: around the opening and the closing times
Instants ==
    { Instant(day, t[1], t[2]) :
        day \in {1, 2},
        t \in { <<1, 59>>, <<2, 0>>, <<2, 1>>, <<10, 59>>, <<11, 0>>, <<17, 59>>, <<18, 0>>,
                <<21, 59>>, <<22, 0>>, <<22, 1>> } }

OpenRequests ==
    { Request("isShopOpen", [openingHours |-> entries, date |-> date]) :
        entries \in {<<>>} \cup {<<e>> : e \in HoursEntries}
                   \cup {<<e, f>> : e \in HoursEntries, f \in HoursEntries},
        date \in Instants }

\* a call of isShopOpen
IsShopOpen ==
    /\ request.op = "isShopOpen"
    /\ response = NoResponse
    /\ response' = Response(200, NULL,
                            Some(isShopOpen(request.target.openingHours, request.target.date)))
    /\ UNCHANGED <<shopVars, reviewVars, favoriteVars, now, asyncVars, request>>

OpenInit == Started(OpenRequests)
OpenNext == IsShopOpen
OpenSpec == OpenInit /\ [][OpenNext]_vars

\* the instant lies in the half-open range from open to close, which wraps
\* past midnight when close is before open
InHalfOpenRange(date, open, close) ==
    LET t == date.hours * 100 + date.minutes
    IN  IF close < open THEN t >= open \/ t < close ELSE t >= open /\ t < close

\* C25: isShopOpen reports a shop open exactly when the entry of the
\* instant's weekday has both times and the instant lies in [open, close),
\* for close < open at or after open or before close; at the instant of the
\* closing time the shop is reported closed
C25_OpenInHalfOpenRange ==
    (request.op = "isShopOpen" /\ response # NoResponse) =>
        LET date == request.target.date
            today == Find(request.target.openingHours, date.day)
            isOpen == Get(response.row)
        IN  isOpen <=> /\ today # None
                       /\ Get(today).openTime # None /\ Get(today).closeTime # None
                       /\ Get(Get(today).openTime).kind = "number"
                       /\ Get(Get(today).closeTime).kind = "number"
                       /\ InHalfOpenRange(date, Get(Get(today).openTime).n,
                                          Get(Get(today).closeTime).n)

-----------------------------------------------------------------------------
(* Properties of the edit marks *)

\* a successful updateReview puts one row in the place of the review of the
\* id: with the edit marks, with the values of the updates, and else as the
\* review was; every other row stays
UpdateMarksTheReview ==
    \A u \in Users, reviewId \in IssuedReviewIds, body \in PutBodies :
        LET updates == insertReviewSchemaPartial(body).data
            res == updateReview(reviews, reviewId, u, updates, now)
        IN  (insertReviewSchemaPartial(body).success /\ res.error = NULL) =>
               \E old \in reviews :
                  LET new == Get(res.row)
                  IN  /\ old.id = reviewId
                      /\ res.rows = (reviews \ {old}) \cup {new}
                      /\ new.isEdited
                      /\ new.editedAt = Some(now)
                      /\ \A f \in InsertReviewFields :
                            new[f] = IF IsSome(updates[f])
                                     THEN ColumnValue(f, Get(updates[f])) ELSE old[f]
                      /\ \A f \in DOMAIN old \ (InsertReviewFields \cup {"isEdited", "editedAt"}) :
                            new[f] = old[f]

\* a row is new without the edit mark, and it gets the mark by an update of
\* its id that succeeds
OnlyUpdateMarks ==
    \A r \in reviews' :
        r.isEdited =>
            \/ \E q \in reviews : q.id = r.id /\ q.isEdited
            \/ /\ request'.op = "PUT /api/reviews"
               /\ response'.status = 200
               /\ Get(response'.row) = r
               /\ \E q \in reviews : q.id = r.id

\* C26: a successful updateReview sets isEdited and sets editedAt to the time
\* of the update on the review it targets, applies the patch to it and
\* leaves every other review as it is; a review that was never updated has
\* isEdited false
C26_UpdateMarksTheReview == []UpdateMarksTheReview /\ [][OnlyUpdateMarks]_vars

\* an update succeeded on one of two stored reviews: the one is marked as
\* edited at the time of the update, the other is not marked
C26_Witness ==
    /\ request.op = "PUT /api/reviews"
    /\ response.status = 200
    /\ Get(response.row).isEdited
    /\ Get(response.row).editedAt = Some(now)
    /\ Get(response.row) \in reviews
    /\ \E q \in reviews : ~q.isEdited /\ q.editedAt = None

-----------------------------------------------------------------------------
(* Opening hours in the store *)

\* formatTime: a time of four characters gets its colon, another text stays;
\* the times of the model
formatTime(time) ==
    CASE time = "1100" -> "11:00"
      [] time = "1400" -> "14:00"
      [] time = "1700" -> "17:00"
      [] time = "2200" -> "22:00"
      [] OTHER -> time

\* GooglePlacesClient.convertOpeningHours: one entry for each period, the
\* weekday the day the period opens
RECURSIVE convertOpeningHours(_)
convertOpeningHours(periods) ==
    IF periods = <<>> THEN <<>>
    ELSE <<[weekday   |-> Head(periods).open.day,
            openTime  |-> Some(formatTime(Head(periods).open.time)),
            closeTime |-> IF Head(periods).close = None THEN None
                          ELSE Some(formatTime(Get(Head(periods).close).time))]>>
         \o convertOpeningHours(Tail(periods))

\* a period of Google's opening_hours
Period(day, open, close) ==
    [open |-> [day |-> day, time |-> open], close |-> Some([day |-> day, time |-> close])]

\* a place that closes over noon: Monday 11:00 to 14:00 and 17:00 to 22:00
SplitPeriods == <<Period(1, "1100", "1400"), Period(1, "1700", "2200")>>

\* other hours for Monday
OtherHoursData == <<[weekday |-> 1, openTime |-> Some("10:00"), closeTime |-> Some("20:00")]>>

\* first statement of updateOpeningHours: delete(openingHours).where(shopId);
\* without hours the call returns after it
UpdateOpeningHoursDelete(h, shopId, hours) ==
    /\ hoursReqs[h] = None
    /\ openingHours' = {x \in openingHours : x.shopId # shopId}
    /\ hoursReqs' = [hoursReqs EXCEPT ![h] = IF hours = <<>> THEN None
                                             ELSE Some([shopId |-> shopId, hours |-> hours])]
    /\ request' = Request("updateOpeningHours", shopId)
    /\ response' = NoResponse
    /\ UNCHANGED <<reviewVars, favoriteVars, now, slugReqs, shops, nextShopId, photos,
                   nextChildId, adminReq, query>>

\* second statement of updateOpeningHours: insert(openingHours).values(hours)
UpdateOpeningHoursInsert(h) ==
    /\ hoursReqs[h] # None
    /\ ChildIdsLeft >= Len(Get(hoursReqs[h]).hours)
    /\ LET req == Get(hoursReqs[h])
           res == createOpeningHours(openingHours, req.shopId, req.hours, nextChildId)
       IN  /\ openingHours' = res.rows
           /\ nextChildId' = res.nextId
           /\ request' = Request("updateOpeningHours", req.shopId)
           /\ response' = IF res.error = NULL THEN Response(200, NULL, None)
                          ELSE Response(500, res.error, None)
    /\ hoursReqs' = [hoursReqs EXCEPT ![h] = None]
    /\ UNCHANGED <<reviewVars, favoriteVars, now, slugReqs, shops, nextShopId, photos,
                   adminReq, query>>

\* the admin's writes of opening hours: updates of the first shop's hours
\* that run concurrently, a create with hours over noon, an import of a place
\* that closes over noon
HoursShopBodies ==
    { [ShopData(NameBey, "Freiberg", Some(1), TRUE)
          EXCEPT !.openingHours = Some(convertOpeningHours(SplitPeriods))] }
HoursPlaceDetails ==
    { [name |-> NameBey, opening_hours |-> convertOpeningHours(SplitPeriods),
       photos |-> <<>>] }

HoursNext ==
    \/ \E h \in Handlers, hours \in {<<>>, HoursData, OtherHoursData} :
          UpdateOpeningHoursDelete(h, ShopIdOf(1), hours)
    \/ \E h \in Handlers : UpdateOpeningHoursInsert(h)
    \/ \E body \in HoursShopBodies : PostApiAdminShops(TRUE, body)
    \/ \E forceUpdate \in BOOLEAN, placeId \in PlaceIds :
          PostApiAdminGoogleImport(TRUE, Some(placeId), forceUpdate)
    \/ \E details \in HoursPlaceDetails : PostApiAdminGoogleImportWrite(details)
    \/ AdminWriteChildren
HoursSpec == Init /\ [][HoursNext]_vars

\* C27: the opening-hours store holds at most one row for a shop and a
\* weekday, after every admin create, admin update and Google import and
\* when two updateOpeningHours for one shop run concurrently
C27_OneRowPerShopAndWeekday ==
    \A a \in openingHours, b \in openingHours :
        (a.shopId = b.shopId /\ a.weekday = b.weekday) => a.id = b.id

-----------------------------------------------------------------------------
(* The client's shop list *)

\* SearchFilters of the client, every field optional
NoSearchFilters ==
    [city |-> None, lat |-> None, lng |-> None, radius |-> None, openNow |-> None,
     halal |-> None, veg |-> None, hasOffers |-> None, hasDelivery |-> None,
     sortBy |-> None]

\* useState of Home: the filters the page starts with
InitialFilters == [NoSearchFilters EXCEPT !.city = Some("Freiberg"), !.sortBy = Some("price")]

\* value.toString() of a field of the filters, or nothing for the empty string
ParamText(key, value) ==
    CASE key \in {"city", "sortBy"} -> IF value = "" THEN None ELSE Some(value)
      [] key \in {"lat", "lng", "radius"} -> NumberText(value)
      [] OTHER -> Some(IF value THEN "true" ELSE "false")

\* api.getShops: the URLSearchParams, a parameter under the field's own key
\* for every field that is set
apiGetShops(filters) ==
    [key \in DOMAIN filters |->
        IF filters[key] = None THEN None ELSE ParamText(key, Get(filters[key]))]

\* req.query of GET /api/shops: the parameters under the keys the route
\* destructures
ReqQuery(params) ==
    [key \in DOMAIN NoQuery |-> IF key \in DOMAIN params THEN params[key] ELSE None]

\* toggleFilter of Home
toggleFilter(prev, key) ==
    [prev EXCEPT ![key] = IF prev[key] = Some(TRUE) THEN None ELSE Some(TRUE)]

\* requestLocation of Home when the browser gives a position
requestLocation(prev, position) ==
    [prev EXCEPT !.lat = Some(position.lat), !.lng = Some(position.lng)]

\* the distance buttons of Home, labelled 1km to 20km
DistanceButtons == {1, 2, 5, 10, 20}

\* setDistanceRadius of Home
setDistanceRadius(prev, userLocation, radius) ==
    [prev EXCEPT !.radius = IF radius = None \/ Get(radius) = 0 THEN None ELSE radius,
                 !.sortBy = IF radius # None /\ Get(radius) # 0 /\ userLocation # None
                            THEN Some("distance") ELSE prev.sortBy]

\* the filters of Home after the user chose an order and toggled filters, and
\* after the user gave the location and pressed a distance button
HomeFilters ==
    { [InitialFilters EXCEPT !.sortBy = sortBy, !.hasOffers = hasOffers, !.halal = halal] :
        sortBy \in {Some("price"), Some("rating")}, hasOffers \in {None, Some(TRUE)},
        halal \in {None, Some(TRUE)} }
    \cup
    { toggleFilter(InitialFilters, key) : key \in {"openNow", "veg", "hasDelivery"} }
    \cup
    { setDistanceRadius(requestLocation(InitialFilters, position), Some(position),
                        Some(radius)) :
        position \in {[lat |-> 509157, lng |-> 133407], [lat |-> 509177, lng |-> 133427]},
        radius \in DistanceButtons }

\* useQuery of Home: api.getShops(filters) and the route's answer
ApiGetShops(filters) ==
    LET q == ReqQuery(apiGetShops(filters))
    IN  /\ \E res \in GetApiShopsResults(q) : response' = res
        /\ request' = Request("api.getShops", filters)
        /\ query' = GetApiShopsFilters(q)
        /\ UNCHANGED <<reviewVars, favoriteVars, now, asyncVars, shopRows, adminReq>>

\* the shops an admin adds meanwhile: one with offers
ClientShopBodies ==
    { [ShopData(NameBey, "Freiberg", Some(1), TRUE) EXCEPT !.hasOffers = Some(TRUE)] }

\* the page next to an admin's create and anonymous reviews
ClientNext ==
    \/ \E filters \in HomeFilters : ApiGetShops(filters)
    \/ \E body \in ClientShopBodies : PostApiAdminShops(TRUE, body)
    \/ \E body \in PagedReviewBodies : PostApiReviews(1, AnonymousCaller, body)
ClientSpec == Init /\ [][ClientNext]_vars

\* C28: every filter the client sets reaches getShops with its meaning: the
\* city, the reference point and the radius, the flags halal, veg, hasOffers
\* and hasDelivery, and the order; a query with hasOffers gives only shops
\* with offers, a query with sortBy = rating is in the order of the ratings
C28_FiltersReachTheServer ==
    request.op = "api.getShops" =>
        LET filters == request.target
            Flag(key) == filters[key] = Some(TRUE)
            SentNumber(key) == IF filters[key] = None THEN None
                           ELSE Some(JsNumber(Get(filters[key])))
            list == Get(response.row)
        IN  /\ query.city = filters.city
            /\ query.lat = SentNumber("lat") /\ query.lng = SentNumber("lng")
            /\ query.radius = SentNumber("radius")
            /\ query.halal = Flag("halal") /\ query.veg = Flag("veg")
            /\ query.hasOffers = Flag("hasOffers")
            /\ query.hasDelivery = Flag("hasDelivery")
            /\ query.sortBy = filters.sortBy
            /\ Flag("hasOffers") => \A i \in 1 .. Len(list) : list[i].shop.hasOffers
            /\ filters.sortBy = Some("rating") => NonIncreasingRating(list)

\* C29: after the distance button of N km the server gives every published
\* shop that matches the other filters and whose distance from the user's
\* location is at most N * 1000 metres
C29_RadiusInKilometres ==
    (request.op = "api.getShops" /\ request.target.radius # None) =>
        LET filters == request.target
            metres == JsNumber(Get(filters.radius) * 1000)
            list == Get(response.row)
        IN  {list[i].shop : i \in 1 .. Len(list)} =
               {shop \in shops :
                   /\ BaseQueryWhere(shop, query)
                   /\ JsLeq(calculateDistance(JsNumber(Get(filters.lat)),
                                              JsNumber(Get(filters.lng)),
                                              shop.lat, shop.lng), metres)}

-----------------------------------------------------------------------------
(* getShopBySlug, statement by statement *)

\* what a call of getShopBySlug holds after its select of the shop: the row,
\* and the answers of the queries of Promise.all that have resolved
SlugCall(shop) == [shop |-> shop, reviewsData |-> None, ratingsData |-> None]

\* getShopBySlug up to its first await: the select of the row by its slug;
\* undefined, and the route's 404, when there is none
GetShopBySlugSelect(h, slug) ==
    LET found == {shop \in shops : shop.slug = slug}
    IN  /\ slugReqs[h] = None
        /\ IF found = {}
           THEN /\ response' = Response(404, "Shop not found", None)
                /\ request' = Request("getShopBySlug", "missing")
                /\ UNCHANGED slugReqs
           ELSE /\ slugReqs' = [slugReqs EXCEPT
                                   ![h] = Some(SlugCall(CHOOSE shop \in found : TRUE))]
                /\ UNCHANGED <<request, response>>
        /\ UNCHANGED <<reviewVars, favoriteVars, now, hoursReqs, shopVars>>

\* the second query of Promise.all: the reviews of the shop; the rows of the
\* list, whose order by createdAt the store of the model does not keep
GetShopBySlugReviews(h) ==
    /\ slugReqs[h] # None
    /\ Get(slugReqs[h]).reviewsData = None
    /\ slugReqs' = [slugReqs EXCEPT
                       ![h] = Some([Get(slugReqs[h]) EXCEPT
                                       !.reviewsData =
                                           Some(ReviewsOfShop(Get(slugReqs[h]).shop.id))])]
    /\ UNCHANGED <<reviewVars, favoriteVars, now, hoursReqs, shopVars, request, response>>

\* the fourth query of Promise.all: AVG(rating) and COUNT(id) over the reviews
\* of the shop, a statement of its own
GetShopBySlugRatings(h) ==
    /\ slugReqs[h] # None
    /\ Get(slugReqs[h]).ratingsData = None
    /\ slugReqs' = [slugReqs EXCEPT
                       ![h] = Some([Get(slugReqs[h]) EXCEPT
                                       !.ratingsData =
                                           Some([avgRating |->
                                                     AVG(ReviewsOfShop(Get(slugReqs[h]).shop.id)),
                                                 reviewCount |->
                                                     COUNT(ReviewsOfShop(Get(slugReqs[h]).shop.id))])])]
    /\ UNCHANGED <<reviewVars, favoriteVars, now, hoursReqs, shopVars, request, response>>

\* the result getShopBySlug puts together; Number(x) || 0
ShopBySlugDetails(call, hoursData, photosData) ==
    LET ratings == Get(call.ratingsData)
    IN  [shop         |-> call.shop,
         openingHours |-> hoursData,
         reviews      |-> Get(call.reviewsData),
         photos       |-> photosData,
         avgRating    |-> IF Number(ratings.avgRating) = 0 THEN 0
                          ELSE Number(ratings.avgRating),
         reviewCount  |-> IF ratings.reviewCount = 0 THEN 0 ELSE ratings.reviewCount]

\* Promise.all resolves and getShopBySlug returns; the queries of the hours and
\* of the photos are read here
GetShopBySlugReturn(h) ==
    /\ slugReqs[h] # None
    /\ Get(slugReqs[h]).reviewsData # None
    /\ Get(slugReqs[h]).ratingsData # None
    /\ LET call == Get(slugReqs[h])
       IN  response' = Response(200, NULL,
                           Some(ShopBySlugDetails(call,
                                    {hrs \in openingHours : hrs.shopId = call.shop.id},
                                    {ph \in photos : ph.shopId = call.shop.id})))
    /\ request' = Request("getShopBySlug", "found")
    /\ slugReqs' = [slugReqs EXCEPT ![h] = None]
    /\ UNCHANGED <<reviewVars, favoriteVars, now, hoursReqs, shopVars>>

\* who reviews the shop meanwhile, and what they send
DetailCallers == {AnonymousCaller, [session |-> "u1", client |-> NoClient]}
DetailReviewBodies == { Body(ShopIdOf(1), Num(2, FALSE)), Body(ShopIdOf(1), Num(5, FALSE)) }
DetailSlugs == {generateSlug(NameAli), generateSlug(NameBey)}

\* the shop page's query next to reviews being created and deleted
ShopDetailNext ==
    \/ \E slug \in DetailSlugs : GetShopBySlugSelect(1, slug)
    \/ GetShopBySlugReviews(1)
    \/ GetShopBySlugRatings(1)
    \/ GetShopBySlugReturn(1)
    \/ \E caller \in DetailCallers, body \in DetailReviewBodies :
           PostApiReviews(1, caller, body)
    \/ PostApiReviewsCreate(1)
    \/ \E reviewId \in ReviewIds : DeleteApiReviews("u1", reviewId)
ShopDetailSpec == Init /\ [][ShopDetailNext]_vars

\* C30: in every result of getShopBySlug reviewCount is the number of the
\* reviews in the result's list and avgRating is the mean of their ratings,
\* 0 over no review, also when reviews of the shop are created and deleted
\* while the query runs
C30_RatingsOfTheReturnedReviews ==
    (request.op = "getShopBySlug" /\ response.status = 200) =>
        LET details == Get(response.row)
        IN  /\ details.reviewCount = Cardinality(details.reviews)
            /\ details.avgRating = Number(AVG(details.reviews))

====
